---- MODULE Spec2Model ----
(***************************************************************************)
(* Model of the Go interface/implementation resolver of ijump:             *)
(*   - src/src/parser/goparser.go  (the extractor, its JSON output)        *)
(*   - src/src/goAstParser.ts      (GoAstParser: parseGoFile and its two   *)
(*     caches, clearCache, the map builders, checkInterfaceImplementations *)
(*     and getAllDecorations).                                             *)
(*   - src/src/goplsService.ts     (parseImplementsComments, the cache of  *)
(*     decorations), the save handler of the extension and ParserManager.  *)
(* The specifications:                                                     *)
(*   Spec        - one resolution run over a symbol table (the passes of   *)
(*                 checkInterfaceImplementations, then the decorations);   *)
(*   SpecCache   - parseGoFile / clearCache calls interleaved with file    *)
(*                 edits and the passing of time, and its variants         *)
(*                 SpecDirs, SpecSeq, SpecSiblings, SpecOverlap, SpecSave, *)
(*                 SpecSaveOther and SpecQuery;                            *)
(*   SpecExtract - one run of the extractor over a tree of directories,    *)
(*                 and SpecComments over a struct with doc comments;       *)
(*   SpecGoplsComments - parseImplementsComments over a document;          *)
(*   SpecSelect  - ParserManager.selectParser.                             *)
(***************************************************************************)
EXTENDS Integers, Sequences, FiniteSets, TLC

VARIABLES
    \* ---- resolution run (Spec) ----
    result,                   \* GoAstResult handed to the map builders
    caller,                   \* who runs checkInterfaceImplementations
    doc,                      \* document.uri of getAllDecorations
    pc,                       \* position inside the run
    interfaceMethodsMap,      \* Map<string, string[]>
    structMethodsMap,         \* Map<string, Map<string, location>>
    structsMap,               \* Map<string, Map<string, any>>, insertion order kept
    implementedInterfaces,    \* Set<string>
    interfaceImplementations, \* Map<string, Set<string>>
    hasNewImplementation,     \* loop flag of the embedding pass
    iterations,               \* loop counter of the embedding pass
    decorations,              \* value returned by getAllDecorations
    \* ---- cache (SpecCache) ----
    now,                      \* Date.now(), in ms
    fsText,                   \* the Go files on disk
    fileCache,                \* Map<filePath, GoAstResult>
    fileCacheTimes,           \* Map<filePath, number>
    parseCache,               \* Map<packagePath, GoAstResult>
    cacheTimes,               \* Map<packagePath, number>
    packageCache,             \* Map<filePath, packagePath>
    isParserReady,            \* isParserReady && parserBinPath
    calls,                    \* parseGoFile calls in flight or returned
    hist,                     \* observation of the call history
    \* ---- ParserManager and GoplsService (SpecSave) ----
    currentService,           \* ParserManager.currentService.getServiceName()
    decorationCache,          \* GoplsService.decorationCache: Map<docKey, result>
    \* ---- the Go extractor process (SpecExtract) ----
    extractor,                \* goparser.go: main's dirPath, result and position
    \* ---- GoplsService.parseImplementsComments (SpecGoplsComments) ----
    gopls,                    \* the document text, the pattern in turn, implementsMap
    \* ---- ParserManager.selectParser (SpecSelect) ----
    manager,                  \* configured and current mode, the availabilities, position
    \* ---- the decoration controller of the extension (SpecThrottle, SpecUpdate) ----
    controller                \* updateThrottleTimer, isUpdating, the calls in flight

resolveVars == <<result, caller, doc, pc, interfaceMethodsMap, structMethodsMap, structsMap,
                 implementedInterfaces, interfaceImplementations,
                 hasNewImplementation, iterations, decorations>>
cacheVars == <<now, fsText, fileCache, fileCacheTimes, parseCache, cacheTimes,
               packageCache, isParserReady, calls, hist>>
managerVars == <<currentService, decorationCache>>
otherVars == <<extractor, gopls, manager, controller>>
vars == <<resolveVars, cacheVars, managerVars, otherVars>>

----------------------------------------------------------------------------
(* Generic helpers *)

Range(s) == {s[i] : i \in DOMAIN s}

RECURSIVE Perms(_)
Perms(S) == IF S = {} THEN {<<>>}
            ELSE UNION {{<<x>> \o p : p \in Perms(S \ {x})} : x \in S}

\* a JavaScript Map without a key
EmptyMap == <<>>
MapSet(m, k, v) == [x \in (DOMAIN m) \cup {k} |-> IF x = k THEN v ELSE m[x]]
MapDelete(m, k) == [x \in (DOMAIN m) \ {k} |-> m[x]]

----------------------------------------------------------------------------
(* The symbol tables the runs are checked over.  Each is a GoAstResult as  *)
(* the extractor prints it: one package with interfaces, structs, methods. *)

FileA == "a.go"
FileB == "b.go"
Files == {FileA, FileB}

\* bound on the length of the embedding chains S_n > ... > S_1 > Base
MaxChain == 5

\* goAstParser.ts:622, and the bound before it was raised
maxIterationsBefore == 3

maxIterations == 5

Iface(n, ms, f, l) ==
    [name |-> n, line |-> l, filePath |-> f,
     methods |-> [i \in DOMAIN ms |-> [name |-> ms[i], line |-> l + i, filePath |-> f]]]

EmbeddedField(t, f, l) ==
    [name |-> t, type |-> t, line |-> l, filePath |-> f, embedded |-> TRUE, isPointer |-> FALSE]

NamedField(n, t, f, l) ==
    [name |-> n, type |-> t, line |-> l, filePath |-> f, embedded |-> FALSE, isPointer |-> FALSE]

\* named: the type of the named field 'item'; emb: the type of the one embedded
\* field, or "" for none; ann: implementsInterfaces
Struct(n, named, emb, ann, f, l) ==
    [name |-> n, line |-> l, filePath |-> f,
     fields |-> IF emb = "" THEN <<NamedField("item", named, f, l + 1)>>
                ELSE <<NamedField("item", named, f, l + 1), EmbeddedField(emb, f, l + 2)>>,
     implementsInterfaces |-> ann]

Method(r, m, p, f, l) ==
    [receiverType |-> r, methodName |-> m, line |-> l, filePath |-> f, isPointer |-> p]

Package(is, ss, ms) ==
    [packages |-> <<[path |-> "/p", name |-> "p", interfaces |-> is, structs |-> ss, methods |-> ms]>>]

EmptyResult == [packages |-> <<>>]

\* --- family 1: two interfaces, structs Base and File, every small combination
ReaderShapes == {<<>>, <<"Read">>, <<"Read", "Write">>}
WriterShapes == {<<>>, <<"Write">>}    \* <<>> here: Writer is not declared
EmbedChoices == {"", "Base", "File", "Reader"}
BaseDecls == {<<>>} \cup {<<Struct("Base", "int", e, <<>>, FileA, 10)>> : e \in EmbedChoices}
FileDecls == {<<>>} \cup {<<Struct("File", "Base", e, a, FileB, 10)>> :
                             e \in EmbedChoices, a \in {<<>>, <<"Reader">>}}
StructSeqs == UNION {{b \o f, f \o b} : b \in BaseDecls, f \in FileDecls}

\* a method is absent, declared with a value receiver, or with a pointer receiver
Recv == {"none", "value", "pointer"}
MethodOf(r, m, kind, f, l) ==
    IF kind = "none" THEN <<>> ELSE <<Method(r, m, kind = "pointer", f, l)>>
MethodSeqs ==
    {MethodOf("Base", "Read", br, FileA, 20) \o MethodOf("Base", "Write", bw, FileA, 21)
       \o MethodOf("File", "Read", fr, FileB, 20) \o MethodOf("File", "Write", fw, FileA, 22) :
       br \in {"none", "value"}, bw \in {"none", "value"},
       fr \in Recv, fw \in {"none", "value"}}

SmallTables ==
    {Package(<<Iface("Reader", r, FileA, 0)>>
               \o (IF w = <<>> THEN <<>> ELSE <<Iface("Writer", w, FileB, 0)>>),
             ss, ms) :
       r \in ReaderShapes, w \in WriterShapes, ss \in StructSeqs, ms \in MethodSeqs}

\* --- family 2: an interface of five methods and a struct with any subset of them
FiveMethods == <<"M1", "M2", "M3", "M4", "M5">>
RECURSIVE MethodsFor(_, _, _)
MethodsFor(r, names, i) ==
    IF i > Len(FiveMethods) THEN <<>>
    ELSE (IF FiveMethods[i] \in names THEN <<Method(r, FiveMethods[i], FALSE, FileB, 20 + i)>>
          ELSE <<>>) \o MethodsFor(r, names, i + 1)
RatioTables ==
    {Package(<<Iface("Five", FiveMethods, FileA, 0)>>,
             <<Struct("Part", "int", "", <<>>, FileB, 10)>>,
             MethodsFor("Part", names, 1)) : names \in SUBSET Range(FiveMethods)}

\* --- family 3: Base has Read, S1 embeds Base, S(k+1) embeds Sk; every order
\* of the declarations up to MaxChain, and for the chain one longer than the
\* iteration bound of the embedding pass the two extreme orders
ChainName(k) == IF k = 0 THEN "Base" ELSE "S" \o ToString(k)
ChainDecl(k) == IF k = 0 THEN Struct("Base", "int", "", <<>>, FileB, 10)
                ELSE Struct(ChainName(k), "int", ChainName(k - 1), <<>>, FileB, 10 + 3 * k)
ChainTables ==
    UNION {{Package(<<Iface("Reader", <<"Read">>, FileA, 0)>>, ss,
                    <<Method("Base", "Read", FALSE, FileB, 5)>>) :
              ss \in Perms({ChainDecl(k) : k \in 0..n})} : n \in 1..MaxChain}

LongChain == maxIterations + 1
LongChainTables ==
    {Package(<<Iface("Reader", <<"Read">>, FileA, 0)>>, ss,
             <<Method("Base", "Read", FALSE, FileB, 5)>>) :
       ss \in {[k \in 1..(LongChain + 1) |-> ChainDecl(k - 1)],
               [k \in 1..(LongChain + 1) |-> ChainDecl(LongChain + 1 - k)]}}

Tables == SmallTables \cup RatioTables \cup ChainTables \cup LongChainTables \cup {EmptyResult}

----------------------------------------------------------------------------
(* goAstParser.ts: the map builders *)

\* keys the code treats as markers: name.startsWith('__')
IsMarkerKey(k) == k \in {"__struct_def__", "__interface_def__"}

\* '*' + structName, and the receiver keys that start with '*'
Star(n) == "*" \o n

Pkgs(r) == Range(r.packages)

\* declarations of all packages, in iteration order
RECURSIVE Concat(_, _)
Concat(ps, field) ==
    IF ps = <<>> THEN <<>> ELSE ps[1][field] \o Concat(Tail(ps), field)

AllInterfaces(r) == Concat(r.packages, "interfaces")
AllStructs(r) == Concat(r.packages, "structs")
AllMethods(r) == Concat(r.packages, "methods")

\* the methods of the embedded interface (internalType) added to the named ones
MethodNamesWithEmbedded(i, all) ==
    LET named == [k \in DOMAIN i.methods |-> i.methods[k].name]
        found == IF "internalType" \in DOMAIN i
                 THEN {j \in DOMAIN all : all[j].name = i.internalType}
                 ELSE {}
    IN  IF found = {} THEN named
        ELSE LET e == all[CHOOSE j \in found : \A j2 \in found : j <= j2]
             IN  named \o [k \in DOMAIN e.methods |-> e.methods[k].name]
RECURSIVE InterfaceMethodsWithEmbedded(_, _)
InterfaceMethodsWithEmbedded(is, m) ==
    IF is = <<>> THEN m
    ELSE InterfaceMethodsWithEmbedded(Tail(is),
            MapSet(m, is[1].name, MethodNamesWithEmbedded(is[1], AllInterfaces(result))))

\* getInterfaceMethods: Map.set per interface, a later declaration replaces an earlier one
RECURSIVE InterfaceMethodsFrom(_, _)
InterfaceMethodsFrom(is, m) ==
    IF is = <<>> THEN m
    ELSE InterfaceMethodsFrom(Tail(is),
            MapSet(m, is[1].name, [i \in DOMAIN is[1].methods |-> is[1].methods[i].name]))
getInterfaceMethods(r) == InterfaceMethodsFrom(AllInterfaces(r), EmptyMap)

\* getInterfaceLocations: '__interface_def__' and one entry per method name
RECURSIVE MethodLocationsFrom(_, _)
MethodLocationsFrom(ms, m) ==
    IF ms = <<>> THEN m
    ELSE MethodLocationsFrom(Tail(ms),
            MapSet(m, ms[1].name, [line |-> ms[1].line, uri |-> ms[1].filePath]))
RECURSIVE InterfaceLocationsFrom(_, _)
InterfaceLocationsFrom(is, m) ==
    IF is = <<>> THEN m
    ELSE LET old == IF is[1].name \in DOMAIN m THEN m[is[1].name] ELSE EmptyMap
             def == MapSet(old, "__interface_def__",
                           [line |-> is[1].line, uri |-> is[1].filePath])
         IN InterfaceLocationsFrom(Tail(is),
                MapSet(m, is[1].name, MethodLocationsFrom(is[1].methods, def)))
getInterfaceLocations(r) == InterfaceLocationsFrom(AllInterfaces(r), EmptyMap)

\* getImplementations as a bug would have it: pointer receivers keyed by '*' + type
RECURSIVE ImplMethodsFromStarred(_, _)
ImplMethodsFromStarred(ms, m) ==
    IF ms = <<>> THEN m
    ELSE LET k == IF ms[1].isPointer THEN Star(ms[1].receiverType) ELSE ms[1].receiverType
             old == IF k \in DOMAIN m THEN m[k] ELSE EmptyMap
         IN ImplMethodsFromStarred(Tail(ms),
                MapSet(m, k, MapSet(old, ms[1].methodName,
                                    [line |-> ms[1].line, uri |-> ms[1].filePath])))

\* getImplementations, first loop: methods keyed by method.receiverType
RECURSIVE ImplMethodsFrom(_, _)
ImplMethodsFrom(ms, m) ==
    IF ms = <<>> THEN m
    ELSE LET k == ms[1].receiverType
             old == IF k \in DOMAIN m THEN m[k] ELSE EmptyMap
         IN ImplMethodsFrom(Tail(ms),
                MapSet(m, k, MapSet(old, ms[1].methodName,
                                    [line |-> ms[1].line, uri |-> ms[1].filePath])))

\* getImplementations, second loop: '__struct_def__' per struct
RECURSIVE ImplStructsFrom(_, _)
ImplStructsFrom(ss, m) ==
    IF ss = <<>> THEN m
    ELSE LET k == ss[1].name
             old == IF k \in DOMAIN m THEN m[k] ELSE EmptyMap
         IN ImplStructsFrom(Tail(ss),
                MapSet(m, k, MapSet(old, "__struct_def__",
                                    [line |-> ss[1].line, uri |-> ss[1].filePath])))

getImplementations(r) == ImplStructsFrom(AllStructs(r), ImplMethodsFrom(AllMethods(r), EmptyMap))

\* the fields Map of one struct: field.name -> {type, line, uri, embedded}
RECURSIVE FieldsFrom(_, _)
FieldsFrom(fs, m) ==
    IF fs = <<>> THEN m
    ELSE FieldsFrom(Tail(fs),
            MapSet(m, fs[1].name, [type |-> fs[1].type, line |-> fs[1].line,
                                   uri |-> fs[1].filePath, embedded |-> fs[1].embedded]))

\* structInfo as getStructsInfo builds it: 'line', 'uri', 'fields' and nothing else
StructInfoOf(s) ==
    [line |-> s.line, uri |-> s.filePath, fields |-> FieldsFrom(s.fields, EmptyMap)]

\* structInfo that also carries the extractor's implementsInterfaces list
StructInfoAnnotated(s) ==
    IF s.implementsInterfaces = <<>> THEN StructInfoOf(s)
    ELSE [line |-> s.line, uri |-> s.filePath, fields |-> FieldsFrom(s.fields, EmptyMap),
          implementsInterfaces |-> s.implementsInterfaces]

\* a Map that is iterated: order = keys in insertion order, info = the values
EmptyOrderedMap == [order |-> <<>>, info |-> EmptyMap]
OrderedSet(m, k, v) ==
    [order |-> IF k \in DOMAIN m.info THEN m.order ELSE Append(m.order, k),
     info |-> MapSet(m.info, k, v)]

RECURSIVE StructsInfoFrom(_, _)
StructsInfoFrom(ss, m) ==
    IF ss = <<>> THEN m
    ELSE StructsInfoFrom(Tail(ss), OrderedSet(m, ss[1].name, StructInfoOf(ss[1])))

\* getStructsInfo; findInterfaceImplementationMarkers has an empty body
getStructsInfo(r) == StructsInfoFrom(AllStructs(r), EmptyOrderedMap)

\* a structsMap whose entries carry 'implementsInterfaces', as the explicit
\* pass of checkInterfaceImplementations reads it
RECURSIVE AnnotatedStructsFrom(_, _)
AnnotatedStructsFrom(ss, m) ==
    IF ss = <<>> THEN m
    ELSE AnnotatedStructsFrom(Tail(ss), OrderedSet(m, ss[1].name, StructInfoAnnotated(ss[1])))
AnnotatedStructsMap(r) == AnnotatedStructsFrom(AllStructs(r), EmptyOrderedMap)

getAllInterfaceNames(r) == {i.name : i \in Range(AllInterfaces(r))}

----------------------------------------------------------------------------
(* goAstParser.ts: checkInterfaceImplementations.  s0 is the pair of locals *)
(* [ii |-> implementedInterfaces, impl |-> interfaceImplementations].      *)


\* the closure without implementedInterfaces.add
addImplementationMapOnly(s0, interfaceName, structName) ==
    [ii |-> s0.ii,
     impl |-> MapSet(s0.impl, interfaceName,
                     (IF interfaceName \in DOMAIN s0.impl THEN s0.impl[interfaceName] ELSE {})
                        \cup {structName})]

\* the closure addImplementation
addImplementation(s0, interfaceName, structName) ==
    [ii |-> s0.ii \cup {interfaceName},
     impl |-> MapSet(s0.impl, interfaceName,
                     (IF interfaceName \in DOMAIN s0.impl THEN s0.impl[interfaceName] ELSE {})
                        \cup {structName})]

\* addImplementation for every pair of a set (the order of the calls has no effect)
RECURSIVE AddAll(_, _)
AddAll(s0, pairs) ==
    IF pairs = {} THEN s0
    ELSE LET p == CHOOSE q \in pairs : TRUE
         IN AddAll(addImplementation(s0, p[1], p[2]), pairs \ {p})

Has(s0, interfaceName, structName) ==
    interfaceName \in DOMAIN s0.impl /\ structName \in s0.impl[interfaceName]

\* the method names of one entry of structMethodsMap, markers left out
MethodNamesOf(smm, key) == {k \in DOMAIN smm[key] : ~IsMarkerKey(k)}

\* implementationRate with the 'high match rate' condition the code removed
HighMatch(interfaceMethods, names) ==
    LET implementedMethodCount ==
            Cardinality({i \in DOMAIN interfaceMethods : interfaceMethods[i] \in names})
    IN implementedMethodCount * 5 >= Len(interfaceMethods) * 4

\* implementationRate === 1.0
PerfectMatch(interfaceMethods, names) ==
    LET implementedMethodCount ==
            Cardinality({i \in DOMAIN interfaceMethods : interfaceMethods[i] \in names})
    IN Len(interfaceMethods) > 0 /\ implementedMethodCount = Len(interfaceMethods)

\* explicit pass: structInfo.has('implementsInterfaces')
ExplicitPairs(imm, sm) ==
    {<<sm.info[s].implementsInterfaces[i], s>> :
        <<s, i>> \in UNION {{<<s2, i2>> : i2 \in DOMAIN sm.info[s2].implementsInterfaces} :
                      s2 \in {s3 \in DOMAIN sm.info : "implementsInterfaces" \in DOMAIN sm.info[s3]}}}
ExplicitPass(s0, imm, sm) ==
    AddAll(s0, {p \in ExplicitPairs(imm, sm) : p[1] \in DOMAIN imm})

\* direct pass: interfaces that are empty or already implemented are skipped
DirectPass(s0, imm, smm) ==
    AddAll(s0, {<<i, s>> \in (DOMAIN imm) \X (DOMAIN smm) :
                    /\ ~(Len(imm[i]) = 0 \/ i \in s0.ii)
                    /\ ~IsMarkerKey(s)
                    /\ ~Has(s0, i, s)
                    /\ PerfectMatch(imm[i], MethodNamesOf(smm, s))})

\* the field loop without its 'if (!fieldInfo.embedded) continue'
EmbeddedTypesAnyField(structInfo) ==
    IF "fields" \notin DOMAIN structInfo THEN {}
    ELSE {structInfo.fields[f].type : f \in DOMAIN structInfo.fields}

\* embedding pass, the body of the for loop for one struct
EmbeddedTypes(structInfo) ==
    IF "fields" \notin DOMAIN structInfo THEN {}
    ELSE {structInfo.fields[f].type : f \in {g \in DOMAIN structInfo.fields :
                                                 structInfo.fields[g].embedded}}
\* the field test reduced to 'interfaceName === fieldType'
EmbedStructInterfaceOnly(s0, structName, structInfo) ==
    AddAll(s0, {<<i, structName>> : i \in
                  {j \in DOMAIN s0.impl :
                      /\ \E fieldType \in EmbeddedTypes(structInfo) : j = fieldType
                      /\ ~Has(s0, j, structName)}})

\* the interface loop run over every declared interface instead of the keys
\* of interfaceImplementations
EmbedStructAnyInterface(s0, structName, structInfo) ==
    AddAll(s0, {<<i, structName>> : i \in
                  {j \in DOMAIN interfaceMethodsMap :
                      /\ \E fieldType \in EmbeddedTypes(structInfo) :
                            (j \in DOMAIN s0.impl /\ fieldType \in s0.impl[j]) \/ j = fieldType
                      /\ ~Has(s0, j, structName)}})

EmbedStruct(s0, structName, structInfo) ==
    AddAll(s0, {<<i, structName>> : i \in
                  {j \in DOMAIN s0.impl :
                      /\ \E fieldType \in EmbeddedTypes(structInfo) :
                            fieldType \in s0.impl[j] \/ j = fieldType
                      /\ ~Has(s0, j, structName)}})

\* one iteration in which every struct sees the implementer sets as they
\* were when the iteration began
RECURSIVE EmbedIterationFromStart(_, _, _)
EmbedIterationFromStart(s0, order, sm) ==
    IF order = <<>> THEN s0
    ELSE LET rest == EmbedIterationFromStart(s0, Tail(order), sm)
             mine == EmbedStruct(s0, order[1], sm.info[order[1]])
         IN  [ii |-> rest.ii \cup mine.ii,
              impl |-> [i \in DOMAIN rest.impl \cup DOMAIN mine.impl |->
                          (IF i \in DOMAIN rest.impl THEN rest.impl[i] ELSE {})
                            \cup (IF i \in DOMAIN mine.impl THEN mine.impl[i] ELSE {})]]

\* one iteration of the while loop: every struct of structsMap in order, each
\* seeing what the structs before it added
RECURSIVE EmbedIteration(_, _, _)
EmbedIteration(s0, order, sm) ==
    IF order = <<>> THEN s0
    ELSE EmbedIteration(EmbedStruct(s0, order[1], sm.info[order[1]]), Tail(order), sm)

\* pointer pass: receiver keys starting with '*', merged with the value receiver
PointerReceivers(smm, names) == {n \in names : Star(n) \in DOMAIN smm}
AllStructMethods(smm, n) ==
    (IF n \in DOMAIN smm THEN MethodNamesOf(smm, n) ELSE {})
      \cup (IF Star(n) \in DOMAIN smm THEN MethodNamesOf(smm, Star(n)) ELSE {})
PointerPass(s0, imm, smm, names) ==
    AddAll(s0, {<<i, s>> \in (DOMAIN imm) \X PointerReceivers(smm, names) :
                    /\ ~(Len(imm[i]) = 0 \/ i \in s0.ii)
                    /\ PerfectMatch(imm[i], AllStructMethods(smm, s))})

\* every name that can be the tail of a '*' receiver key
ReceiverNames(r) == {m.receiverType : m \in Range(AllMethods(r))}

----------------------------------------------------------------------------
(* goAstParser.ts: getAllDecorations, the part after checkInterfaceImplementations. *)
(* The two decoration arrays are kept as sets of {line, type, name}.       *)

NoDoc == ""
NoDecorations ==
    [interfaceDecorations |-> {}, implementationDecorations |-> {},
     lineToMethodMap |-> EmptyMap, lineTypeMap |-> EmptyMap]

Decoration(l, t, n) == [line |-> l, type |-> t, name |-> n]

\* interface definitions and interface methods of implemented interfaces, in the document
InterfaceDecorationsOf(ii, ilm, docKey) ==
    UNION {{Decoration(ilm[i][k].line, "interface",
                       IF k = "__interface_def__" THEN i ELSE k) :
               k \in {k2 \in DOMAIN ilm[i] : ilm[i][k2].uri = docKey}} :
           i \in {j \in DOMAIN ilm : j \in ii}}

\* structImplementedInterfaces: struct keys whose own methods cover an implemented interface
CoversAll(methods, names) == \A i \in DOMAIN methods : methods[i] \in names
StructImplementedInterfaces(ii, imm, smm) ==
    [s \in {s2 \in DOMAIN smm : \E i \in DOMAIN imm :
                 i \in ii /\ CoversAll(imm[i], MethodNamesOf(smm, s2))} |->
        {i \in DOMAIN imm : i \in ii /\ CoversAll(imm[i], MethodNamesOf(smm, s))}]

\* interfaceImplementingMethods: method name -> structs implementing it for some interface
InterfaceImplementingMethods(ii, imm, ilm, smm) ==
    [m \in UNION {Range(imm[i]) : i \in {j \in DOMAIN ilm : j \in ii /\ j \in DOMAIN imm}} |->
        {s \in DOMAIN smm : \E i \in DOMAIN imm :
            /\ i \in ii
            /\ CoversAll(imm[i], MethodNamesOf(smm, s))
            /\ m \in Range(imm[i])}]

\* the implementation loop without the interfaceImplementingMethods test:
\* every method of a struct that implements some interface
ImplementationDecorationsAllMethods(ii, imm, ilm, smm, docKey) ==
    LET sii == StructImplementedInterfaces(ii, imm, smm)
    IN UNION {
          {Decoration(smm[s][m].line, "implementation", m) :
              m \in {m2 \in DOMAIN smm[s] : ~IsMarkerKey(m2) /\ smm[s][m2].uri = docKey}}
          \cup
          (IF "__struct_def__" \in DOMAIN smm[s] /\ smm[s]["__struct_def__"].uri = docKey
           THEN {Decoration(smm[s]["__struct_def__"].line, "implementation", s)}
           ELSE {}) :
          s \in DOMAIN sii}

ImplementationDecorationsOf(ii, imm, ilm, smm, docKey) ==
    LET sii == StructImplementedInterfaces(ii, imm, smm)
        iim == InterfaceImplementingMethods(ii, imm, ilm, smm)
    IN UNION {
          {Decoration(smm[s][m].line, "implementation", m) :
              m \in {m2 \in DOMAIN smm[s] :
                        /\ ~IsMarkerKey(m2)
                        /\ m2 \in DOMAIN iim
                        /\ s \in iim[m2]
                        /\ smm[s][m2].uri = docKey}}
          \cup
          (IF "__struct_def__" \in DOMAIN smm[s] /\ smm[s]["__struct_def__"].uri = docKey
           THEN {Decoration(smm[s]["__struct_def__"].line, "implementation", s)}
           ELSE {}) :
          s \in DOMAIN sii}

\* lineToMethodMap / lineTypeMap: one Map.set per pushed decoration, the
\* implementation decorations after the interface decorations
LineMap(ids, mds, field) ==
    [l \in {d.line : d \in ids \cup mds} |->
        IF \E d \in mds : d.line = l
        THEN (CHOOSE d \in mds : d.line = l)[field]
        ELSE (CHOOSE d \in ids : d.line = l)[field]]

DecorationsOf(ii, r, imm, smm, docKey) ==
    LET ilm == getInterfaceLocations(r)
        ids == InterfaceDecorationsOf(ii, ilm, docKey)
        mds == ImplementationDecorationsOf(ii, imm, ilm, smm, docKey)
    IN [interfaceDecorations |-> ids, implementationDecorations |-> mds,
        lineToMethodMap |-> LineMap(ids, mds, "name"),
        lineTypeMap |-> LineMap(ids, mds, "type")]

----------------------------------------------------------------------------
(* goparser.go: the comment functions.  A comment text is a sequence of    *)
(* pieces; a piece is a word of letters, one other character, or one of    *)
(* the markers of the patterns, and the text is their concatenation.       *)

\* Go's nil
nil == [nil |-> TRUE]

\* bound on the number of pieces after "implements " in a comment
MaxTail == 5

LetterWords == {"ensure", "ENSURE", "implements", "var", "S", "s", "T", "A", "B", "_"}
DigitPieces == {"9"}

\* \s of the patterns, and what strings.TrimSpace removes
IsSpace(c) == c = " "

\* [A-Za-z_] as the first character, [A-Za-z0-9_] for every character
StartsIdentifier(c) == c \in LetterWords
IdentifierPiece(c) == c \in LetterWords \cup DigitPieces

\* [A-Za-z0-9_,\s]
ListPiece(c) == IdentifierPiece(c) \/ c = "," \/ IsSpace(c)

\* (?i): the piece in lower case
Fold(c) == CASE c = "ENSURE" -> "ensure"
             [] c = "S" -> "s"
             [] c = "T" -> "t"
             [] c = "A" -> "a"
             [] c = "B" -> "b"
             [] OTHER -> c

\* the pieces whose text ends with the literal, whatever the case: of the
\* words above only "implements" ends with another one, "s"
EndsWithFold(c, literal) ==
    \/ Fold(c) = Fold(literal)
    \/ Fold(literal) = "s" /\ c = "implements"

\* the first position from i on that is not white space
RECURSIVE SpacesEnd(_, _)
SpacesEnd(text, i) ==
    IF i <= Len(text) /\ IsSpace(text[i]) THEN SpacesEnd(text, i + 1) ELSE i

\* the first position from i on outside the class
RECURSIVE ListEnd(_, _)
ListEnd(text, i) ==
    IF i <= Len(text) /\ ListPiece(text[i]) THEN ListEnd(text, i + 1) ELSE i

RECURSIVE IdentifierEnd(_, _)
IdentifierEnd(text, i) ==
    IF i <= Len(text) /\ IdentifierPiece(text[i]) THEN IdentifierEnd(text, i + 1) ELSE i

\* \s+ literal from position i (case folded): the position after it, or 0
AfterSpacesAnd(text, i, literal) ==
    LET j == SpacesEnd(text, i)
    IN  IF j > i /\ j <= Len(text) /\ Fold(text[j]) = Fold(literal) THEN j + 1 ELSE 0

\* \s+implements\s+([A-Za-z_][A-Za-z0-9_,\s]*) from position i: the capture
\* as <<from, to>>, or <<>>
ImplementsList(text, i) ==
    LET j == AfterSpacesAnd(text, i, "implements")
        k == IF j = 0 THEN 0 ELSE SpacesEnd(text, j)
    IN  IF j # 0 /\ k > j /\ k <= Len(text) /\ StartsIdentifier(text[k])
        THEN <<k, ListEnd(text, k) - 1>>
        ELSE <<>>

\* goparser.go:109, the pattern matched with its text ending at piece i
EnsurePatternAt(text, i, structName) ==
    LET j == AfterSpacesAnd(text, i + 1, structName)
    IN  IF EndsWithFold(text[i], "ensure") /\ j # 0 THEN ImplementsList(text, j) ELSE <<>>

\* goparser.go:111
ShortPatternAt(text, i, structName) ==
    IF EndsWithFold(text[i], structName) THEN ImplementsList(text, i + 1) ELSE <<>>

\* goparser.go:113, var\s+_\s+(identifier)\s*=\s*\(\*S\)\(nil\)
VarPatternAt(text, i, structName) ==
    LET j == SpacesEnd(text, i + 1)
        k == SpacesEnd(text, j + 1)
        e == IdentifierEnd(text, k)
        q == SpacesEnd(text, e)
        o == SpacesEnd(text, q + 1)
    IN  IF /\ text[i] = "var"
           /\ j > i + 1 /\ j <= Len(text) /\ text[j] = "_"
           /\ k > j + 1 /\ k <= Len(text) /\ StartsIdentifier(text[k])
           /\ q <= Len(text) /\ text[q] = "="
           /\ o + 2 <= Len(text)
           /\ text[o] = "(*" /\ text[o + 1] = structName /\ text[o + 2] = ")(nil)"
        THEN <<k, e - 1>>
        ELSE <<>>

PatternAt(n, text, i, structName) ==
    CASE n = 1 -> EnsurePatternAt(text, i, structName)
      [] n = 2 -> ShortPatternAt(text, i, structName)
      [] OTHER -> VarPatternAt(text, i, structName)

\* re.FindStringSubmatch: the capture of the leftmost match, <<>> for none
RECURSIVE FindStringSubmatch(_, _, _, _)
FindStringSubmatch(n, text, i, structName) ==
    IF i > Len(text) THEN <<>>
    ELSE IF PatternAt(n, text, i, structName) # <<>>
         THEN LET m == PatternAt(n, text, i, structName) IN <<SubSeq(text, m[1], m[2])>>
         ELSE FindStringSubmatch(n, text, i + 1, structName)

\* strings.Split(s, ",")
RECURSIVE Split(_)
Split(s) ==
    IF \E i \in DOMAIN s : s[i] = ","
    THEN LET i == CHOOSE x \in DOMAIN s : s[x] = "," /\ \A y \in 1..(x - 1) : s[y] # ","
         IN  <<SubSeq(s, 1, i - 1)>> \o Split(SubSeq(s, i + 1, Len(s)))
    ELSE <<s>>

RECURSIVE TrimRight(_)
TrimRight(s) == IF s # <<>> /\ IsSpace(s[Len(s)]) THEN TrimRight(SubSeq(s, 1, Len(s) - 1)) ELSE s

\* strings.TrimSpace
TrimSpace(s) == TrimRight(SubSeq(s, SpacesEnd(s, 1), Len(s)))

\* goparser.go:136
isValidIdentifier(s) ==
    /\ Len(s) # 0
    /\ StartsIdentifier(s[1])
    /\ \A i \in DOMAIN s : IdentifierPiece(s[i])

\* the string the pieces spell
RECURSIVE Spell(_)
Spell(s) == IF s = <<>> THEN "" ELSE s[1] \o Spell(Tail(s))

RECURSIVE ValidNames(_)
ValidNames(interfaceList) ==
    IF interfaceList = <<>> THEN <<>>
    ELSE LET iface == TrimSpace(Head(interfaceList))
         IN  (IF iface # <<>> /\ isValidIdentifier(iface) THEN <<Spell(iface)>> ELSE <<>>)
             \o ValidNames(Tail(interfaceList))

\* goparser.go:101: the patterns in their order, the first that matches decides
RECURSIVE parseImplementsCommentFrom(_, _, _)
parseImplementsCommentFrom(n, comment, structName) ==
    IF n > 3 THEN <<>>
    ELSE LET matches == FindStringSubmatch(n, comment, 1, structName)
         IN  IF matches # <<>> THEN ValidNames(Split(matches[1]))
             ELSE parseImplementsCommentFrom(n + 1, comment, structName)

parseImplementsComment(comment, structName) == parseImplementsCommentFrom(1, comment, structName)

\* goparser.go:164-167: the comment markers and the surrounding white space
TrimPrefix(text, prefix) == IF text # <<>> /\ Head(text) = prefix THEN Tail(text) ELSE text
TrimSuffix(text, suffix) ==
    IF text # <<>> /\ text[Len(text)] = suffix THEN SubSeq(text, 1, Len(text) - 1) ELSE text
CommentBody(text) == TrimSpace(TrimSuffix(TrimPrefix(TrimPrefix(text, "//"), "/*"), "*/"))

\* goparser.go:155; a nil comment group is None
RECURSIVE extractImplementsFromList(_, _)
extractImplementsFromList(list, structName) ==
    IF list = <<>> THEN <<>>
    ELSE parseImplementsComment(CommentBody(Head(list)), structName)
         \o extractImplementsFromList(Tail(list), structName)

extractImplementsFromComments(commentGroup, structName) ==
    IF commentGroup = nil THEN <<>> ELSE extractImplementsFromList(commentGroup.List, structName)

----------------------------------------------------------------------------
(* goparser.go: what go/parser hands to parseDirectory.  A file is its     *)
(* path, whether ParseFile succeeds, and its declarations in source order. *)

Ident(n) == [node |-> "Ident", Name |-> n]
StarExpr(x) == [node |-> "StarExpr", X |-> x]
SelectorExpr(x, sel) == [node |-> "SelectorExpr", X |-> x, Sel |-> sel]
\* any other expression, such as Set[T]
IndexExpr == [node |-> "IndexExpr"]

\* goparser.go:80
getTypeNameFromExpr(expr) ==
    CASE expr.node = "Ident" -> [name |-> expr.Name, isPointer |-> FALSE]
      [] expr.node = "StarExpr" /\ expr.X.node = "Ident" ->
            [name |-> expr.X.Name, isPointer |-> TRUE]
      [] expr.node = "SelectorExpr" /\ expr.X.node = "Ident" ->
            [name |-> expr.X.Name \o "." \o expr.Sel, isPointer |-> FALSE]
      [] OTHER -> [name |-> "", isPointer |-> FALSE]

\* goparser.go:74
getLineFromPos(line) == line - 1

\* filepath.Join(dir, base) and filepath.Dir(path)
Join(dir, base) == [dir |-> dir, base |-> base]
Dir(path) == path.dir

\* an entry of an interface or a field of a struct: Names is empty when unnamed
AstField(names, type, line) == [Names |-> names, Type |-> type, Line |-> line]

InterfaceDecl(name, line, list) ==
    [decl |-> "interface", Name |-> name, Line |-> line, List |-> list]
StructDecl(name, line, specDoc, declDoc, list) ==
    [decl |-> "struct", Name |-> name, Line |-> line, Doc |-> specDoc, DeclDoc |-> declDoc,
     List |-> list]
FuncDecl(recv, name, line) == [decl |-> "func", Recv |-> recv, Name |-> name, Line |-> line]

\* goparser.go:242-260, the entries of an interface from entry i on
RECURSIVE InterfaceEntriesFirstWins(_, _, _, _)
InterfaceEntriesFirstWins(interfaceInfo, list, i, path) ==
    IF i > Len(list) THEN interfaceInfo
    ELSE LET field == list[i]
             typeName == getTypeNameFromExpr(field.Type).name
             methods == [n \in DOMAIN field.Names |->
                            [name |-> field.Names[n], line |-> getLineFromPos(field.Line),
                             filePath |-> path]]
         IN  InterfaceEntriesFirstWins(
                 IF Len(field.Names) > 0
                 THEN [interfaceInfo EXCEPT !.methods = @ \o methods]
                 ELSE IF typeName # "" /\ interfaceInfo.internalType = ""
                      THEN [interfaceInfo EXCEPT !.internalType = typeName]
                      ELSE interfaceInfo,
                 list, i + 1, path)

RECURSIVE InterfaceEntries(_, _, _, _)
InterfaceEntries(interfaceInfo, list, i, path) ==
    IF i > Len(list) THEN interfaceInfo
    ELSE LET field == list[i]
             typeName == getTypeNameFromExpr(field.Type).name
             methods == [n \in DOMAIN field.Names |->
                            [name |-> field.Names[n], line |-> getLineFromPos(field.Line),
                             filePath |-> path]]
         IN  InterfaceEntries(
                 IF Len(field.Names) > 0
                 THEN [interfaceInfo EXCEPT !.methods = @ \o methods]
                 ELSE IF typeName # ""
                      THEN [interfaceInfo EXCEPT !.internalType = typeName]
                      ELSE interfaceInfo,
                 list, i + 1, path)

InterfaceInfoFirstWins(d, path) ==
    InterfaceEntriesFirstWins([name |-> d.Name, line |-> getLineFromPos(d.Line),
                               filePath |-> path, methods |-> <<>>, internalType |-> ""],
                              d.List, 1, path)

\* goparser.go:233-263; internalType "" is left out of the JSON (omitempty)
InterfaceInfoOf(d, path) ==
    InterfaceEntries([name |-> d.Name, line |-> getLineFromPos(d.Line), filePath |-> path,
                      methods |-> <<>>, internalType |-> ""],
                     d.List, 1, path)

\* goparser.go:288-316
RECURSIVE StructFields(_, _, _)
StructFields(list, i, path) ==
    IF i > Len(list) THEN <<>>
    ELSE LET field == list[i]
             t == getTypeNameFromExpr(field.Type)
             one(n, e) == [name |-> n, type |-> t.name, line |-> getLineFromPos(field.Line),
                           filePath |-> path, embedded |-> e, isPointer |-> t.isPointer]
         IN  (IF Len(field.Names) = 0 THEN <<one(t.name, TRUE)>>
              ELSE [n \in DOMAIN field.Names |-> one(field.Names[n], FALSE)])
             \o StructFields(list, i + 1, path)

\* goparser.go:276-285: the comments of the type, else those of the declaration
ImplementsOf(d) ==
    LET ofSpec == IF d.Doc # nil THEN extractImplementsFromComments(d.Doc, d.Name) ELSE <<>>
    IN  IF Len(ofSpec) = 0 /\ d.DeclDoc # nil
        THEN extractImplementsFromComments(d.DeclDoc, d.Name)
        ELSE ofSpec

\* goparser.go:266-319
StructDeclInfo(d, path) ==
    [name |-> d.Name, line |-> getLineFromPos(d.Line), filePath |-> path,
     fields |-> StructFields(d.List, 1, path),
     implementsInterfaces |-> ImplementsOf(d)]

\* goparser.go:324-341, a function with a receiver whose type has a name
ImplementationInfoOf(d, path) ==
    LET t == getTypeNameFromExpr(d.Recv)
    IN  [receiverType |-> t.name, methodName |-> d.Name, line |-> getLineFromPos(d.Line),
         filePath |-> path, isPointer |-> t.isPointer]

\* goparser.go:226-343, ast.Inspect over the declarations of one file
RECURSIVE Inspect(_, _, _)
Inspect(pkgInfo, decls, path) ==
    IF decls = <<>> THEN pkgInfo
    ELSE LET d == Head(decls)
         IN  Inspect(
                 CASE d.decl = "interface" ->
                        [pkgInfo EXCEPT !.interfaces = Append(@, InterfaceInfoOf(d, path))]
                   [] d.decl = "struct" ->
                        [pkgInfo EXCEPT !.structs = Append(@, StructDeclInfo(d, path))]
                   [] d.decl = "func" /\ d.Recv # nil /\ getTypeNameFromExpr(d.Recv).name # "" ->
                        [pkgInfo EXCEPT !.methods = Append(@, ImplementationInfoOf(d, path))]
                   [] OTHER -> pkgInfo,
                 Tail(decls), path)

----------------------------------------------------------------------------
(* goparser.go: main, analyzeFile and parseDirectory.  extractor holds the *)
(* directories the process sees (tree), the directory of its argument      *)
(* (dirPath), processedDirs, result.Packages, the directories it has       *)
(* listed and what it printed.                                             *)

DirRoot == "/"
DirW == "/w"
DirD == "/w/d"
ScanDirs == {DirRoot, DirW, DirD}

\* filepath.Dir of a directory
ParentDir(dir) == IF dir = DirD THEN DirW ELSE DirRoot

\* no process
NotStarted == [pc |-> "none"]

OthersIdle ==
    /\ extractor = NotStarted /\ gopls = NotStarted /\ manager = NotStarted
    /\ controller = NotStarted

\* main with the path of a file of dirPath as its argument
Started(tree, dirPath) ==
    [pc |-> "main", tree |-> tree, dirPath |-> dirPath, dir |-> dirPath, goFiles |-> <<>>,
     processedDirs |-> {}, Packages |-> EmptyMap, listed |-> <<>>, failed |-> {},
     stdout |-> nil, exit |-> nil]

\* goparser.go:186-198, processDir up to its loop; dir is not in processedDirs
EnterDir(e, dir) ==
    [e EXCEPT !.pc = "files", !.dir = dir, !.processedDirs = @ \cup {dir},
              !.goFiles = e.tree[dir], !.listed = Append(@, dir)]

\* goparser.go:353
ProcessDirPath ==
    /\ extractor.pc = "main"
    /\ extractor' = EnterDir(extractor, extractor.dirPath)
    /\ UNCHANGED <<resolveVars, cacheVars, managerVars, gopls, manager, controller>>

NewPackage(packagePath, packageName) ==
    [path |-> packagePath, name |-> packageName, interfaces |-> <<>>, structs |-> <<>>,
     methods |-> <<>>]

\* goparser.go:209-346, one file that parsed
WithFile(Packages, file) ==
    LET packagePath == Dir(file.path)
        pkgInfo == IF packagePath \in DOMAIN Packages THEN Packages[packagePath]
                   ELSE NewPackage(packagePath, file.Name)
    IN  MapSet(Packages, packagePath, Inspect(pkgInfo, file.Decls, file.path))

\* a file that fails to parse ends the scan of its directory
ParseFileAborts ==
    /\ extractor.pc = "files"
    /\ extractor.goFiles # <<>>
    /\ LET file == Head(extractor.goFiles)
       IN  extractor' =
             IF file.parses
             THEN [extractor EXCEPT !.goFiles = Tail(@),
                                    !.Packages = WithFile(@, file)]
             ELSE [extractor EXCEPT !.goFiles = <<>>, !.failed = @ \cup {file.path}]
    /\ UNCHANGED <<resolveVars, cacheVars, managerVars, gopls, manager, controller>>

\* goparser.go:201-347, one turn of the loop over goFiles
ParseFile ==
    /\ extractor.pc = "files"
    /\ extractor.goFiles # <<>>
    /\ LET file == Head(extractor.goFiles)
       IN  extractor' =
             IF file.parses
             THEN [extractor EXCEPT !.goFiles = Tail(@),
                                    !.Packages = WithFile(@, file)]
             ELSE [extractor EXCEPT !.goFiles = Tail(@), !.failed = @ \cup {file.path}]
    /\ UNCHANGED <<resolveVars, cacheVars, managerVars, gopls, manager, controller>>

\* the number of declarations of result
Declarations(Packages) ==
    LET n(p) == Len(Packages[p].interfaces) + Len(Packages[p].structs) + Len(Packages[p].methods)
        RECURSIVE Sum(_)
        Sum(ps) == IF ps = {} THEN 0 ELSE LET p == CHOOSE x \in ps : TRUE IN n(p) + Sum(ps \ {p})
    IN  Sum(DOMAIN Packages)

\* the parent is scanned when the directory yielded no declaration
FallbackOnNoDeclarations ==
    /\ extractor.pc = "files"
    /\ extractor.goFiles = <<>>
    /\ extractor.dir = extractor.dirPath
    /\ LET parentDir == ParentDir(extractor.dirPath)
       IN  extractor' =
             IF Declarations(extractor.Packages) = 0 /\ parentDir # extractor.dirPath
                /\ parentDir \notin extractor.processedDirs
             THEN EnterDir(extractor, parentDir)
             ELSE [extractor EXCEPT !.pc = "return"]
    /\ UNCHANGED <<resolveVars, cacheVars, managerVars, gopls, manager, controller>>

\* goparser.go:358-364, after processDir(dirPath) has returned
Fallback ==
    /\ extractor.pc = "files"
    /\ extractor.goFiles = <<>>
    /\ extractor.dir = extractor.dirPath
    /\ LET parentDir == ParentDir(extractor.dirPath)
       IN  extractor' =
             IF DOMAIN extractor.Packages = {} /\ parentDir # extractor.dirPath
                /\ parentDir \notin extractor.processedDirs
             THEN EnterDir(extractor, parentDir)
             ELSE [extractor EXCEPT !.pc = "return"]
    /\ UNCHANGED <<resolveVars, cacheVars, managerVars, gopls, manager, controller>>

\* goparser.go:366 and 383-396: parseDirectory returns result and a nil error,
\* main prints it
PrintResult ==
    /\ \/ extractor.pc = "return"
       \/ extractor.pc = "files" /\ extractor.goFiles = <<>> /\ extractor.dir # extractor.dirPath
    /\ extractor' = [extractor EXCEPT !.pc = "exit", !.stdout = [packages |-> extractor.Packages],
                                      !.exit = 0]
    /\ UNCHANGED <<resolveVars, cacheVars, managerVars, gopls, manager, controller>>

----------------------------------------------------------------------------
(* SpecExtract: one run of the extractor over a small tree of directories. *)

\* bound on the number of Go files of the directory of the argument
MaxFiles == 2

\* bound on the number of entries of an interface declaration
MaxEntries == 3

\* the files of a directory in the order filepath.Glob lists them
BaseName(i) == CASE i = 1 -> "a.go" [] i = 2 -> "b.go" [] i = 3 -> "c.go" [] OTHER -> "d.go"

\* a file ParseFile rejects
BadFile(path) == [path |-> path, parses |-> FALSE, Name |-> "", Decls |-> <<>>]

\* a file with a package clause and nothing the extractor collects
PlainFile(path) == [path |-> path, parses |-> TRUE, Name |-> "d", Decls |-> <<>>]

\* a file with an interface, a struct and a method
DeclFile(path) ==
    [path |-> path, parses |-> TRUE, Name |-> "d",
     Decls |-> <<InterfaceDecl("Reader", 3, <<AstField(<<"Read">>, [node |-> "FuncType"], 4)>>),
                 StructDecl("File", 7, nil, nil, <<AstField(<<"fd">>, Ident("int"), 8)>>),
                 FuncDecl(StarExpr(Ident("File")), "Read", 11)>>]

GoFileKinds == {"bad", "plain", "decl"}

FileOfKind(kind, path) ==
    CASE kind = "bad" -> BadFile(path)
      [] kind = "plain" -> PlainFile(path)
      [] OTHER -> DeclFile(path)

FilesOf(dir, kinds) == [i \in DOMAIN kinds |-> FileOfKind(kinds[i], Join(dir, BaseName(i)))]

SeqsUpTo(S, n) == UNION {[1..k -> S] : k \in 0..n}

\* the directory /w/d, its parent /w and the root
DirTrees ==
    {[dir \in ScanDirs |-> CASE dir = DirD -> FilesOf(dir, kd)
                         [] dir = DirW -> FilesOf(dir, kw)
                         [] OTHER -> FilesOf(dir, kr)] :
        kd \in SeqsUpTo(GoFileKinds, MaxFiles), kw \in SeqsUpTo(GoFileKinds, 1),
        kr \in {<<>>, <<"decl">>}}

\* the unnamed and named entries of an interface
EntryTypes == {[node |-> "FuncType"], Ident("Reader"), SelectorExpr(Ident("io"), "Writer"),
               IndexExpr}

EntryOf(type, line) ==
    AstField(IF type.node = "FuncType" THEN <<"Close">> ELSE <<>>, type, line)

OneFileTree(decls) ==
    [dir \in ScanDirs |-> IF dir = DirD
                      THEN <<[path |-> Join(DirD, BaseName(1)), parses |-> TRUE, Name |-> "d",
                              Decls |-> decls]>>
                      ELSE <<>>]

InterfaceTrees ==
    {OneFileTree(<<InterfaceDecl("ReadWriter", 3, [i \in DOMAIN ts |-> EntryOf(ts[i], 3 + i)])>>) :
        ts \in SeqsUpTo(EntryTypes, MaxEntries)}

\* the comments above `type S struct`: "// ensure S implements " or
\* "// S implements " and then up to MaxTail pieces
ListPieces == {"A", "B", "9", ",", ".", " "}

EnsureHead == <<"//", " ", "ensure", " ", "S", " ", "implements", " ">>
ShortHead == <<"//", " ", "S", " ", "implements", " ">>

ListComments == {head \o tail : head \in {EnsureHead, ShortHead}, tail \in SeqsUpTo(ListPieces, MaxTail)}

\* other spellings: upper and lower case, the var form, another struct, prose
OtherComments ==
    {<<"//", " ", "ENSURE", " ", "s", " ", "implements", " ", "A">>,
     <<"/*", " ", "ensure", " ", "S", " ", "implements", " ", "A", ",", "B", " ", "*/">>,
     <<"//", " ", "var", " ", "_", " ", "A", " ", "=", " ", "(*", "S", ")(nil)">>,
     <<"//", " ", "var", " ", "_", " ", "A", " ", "=", " ", "(*", "T", ")(nil)">>,
     <<"//", " ", "ensure", " ", "T", " ", "implements", " ", "A">>,
     <<"//", " ", "T", "S", " ", "implements", " ", "A">>,
     <<"//", " ", "A", " ", "implements", " ", "implements", " ", "B">>}

SecondComments == {<<>>, <<ShortHead \o <<"B">> >>}

CommentGroup(list) == [List |-> list]

CommentTrees ==
    {OneFileTree(<<StructDecl("S", 7, CommentGroup(<<c>> \o more), nil, <<>>)>>) :
        c \in ListComments, more \in SecondComments}
    \cup {OneFileTree(<<StructDecl("S", 7, IF own = 0 THEN nil
                                           ELSE IF own = 1 THEN CommentGroup(<<c>>)
                                           ELSE CommentGroup(<<EnsureHead \o <<"9">> >>),
                                    CommentGroup(<<c>>), <<>>)>>) :
        c \in OtherComments, own \in 0..2}

----------------------------------------------------------------------------
(* Spec: one resolution run *)

locals == [ii |-> implementedInterfaces, impl |-> interfaceImplementations]

CachesEmpty ==
    /\ now = 0
    /\ fsText = EmptyMap
    /\ fileCache = EmptyMap
    /\ fileCacheTimes = EmptyMap
    /\ parseCache = EmptyMap
    /\ cacheTimes = EmptyMap
    /\ packageCache = EmptyMap
    /\ isParserReady = FALSE
    /\ calls = EmptyMap
    /\ hist = EmptyMap
    /\ currentService = "parser"
    /\ decorationCache = EmptyMap

CacheIdle == CachesEmpty /\ OthersIdle

ResolveIdle ==
    /\ caller = "none"
    /\ doc = NoDoc
    /\ pc = "idle"
    /\ interfaceMethodsMap = EmptyMap
    /\ structMethodsMap = EmptyMap
    /\ structsMap = EmptyOrderedMap
    /\ implementedInterfaces = {}
    /\ interfaceImplementations = EmptyMap
    /\ hasNewImplementation = FALSE
    /\ iterations = 0
    /\ decorations = NoDecorations

Init ==
    /\ result \in Tables
    /\ ResolveIdle
    /\ CacheIdle

\* getAllDecorations up to the call of checkInterfaceImplementations
GetAllDecorations ==
    /\ pc = "idle"
    /\ caller' = "getAllDecorations"
    /\ IF result.packages = <<>>
       THEN /\ pc' = "done"
            /\ UNCHANGED <<interfaceMethodsMap, structMethodsMap, structsMap>>
       ELSE /\ pc' = "explicit"
            /\ interfaceMethodsMap' = getInterfaceMethods(result)
            /\ structMethodsMap' = getImplementations(result)
            /\ structsMap' = getStructsInfo(result)
    /\ UNCHANGED <<result, doc, implementedInterfaces, interfaceImplementations,
                   hasNewImplementation, iterations, decorations, cacheVars, managerVars, otherVars>>

\* checkInterfaceImplementations called with a structsMap that carries the
\* implementsInterfaces lists of the extractor
CheckAnnotated ==
    /\ pc = "idle"
    /\ result.packages # <<>>
    /\ \E s \in Range(AllStructs(result)) : s.implementsInterfaces # <<>>
    /\ caller' = "direct"
    /\ pc' = "explicit"
    /\ interfaceMethodsMap' = getInterfaceMethods(result)
    /\ structMethodsMap' = getImplementations(result)
    /\ structsMap' = AnnotatedStructsMap(result)
    /\ UNCHANGED <<result, doc, implementedInterfaces, interfaceImplementations,
                   hasNewImplementation, iterations, decorations, cacheVars, managerVars, otherVars>>

SetLocals(s) ==
    /\ implementedInterfaces' = s.ii
    /\ interfaceImplementations' = s.impl

Explicit ==
    /\ pc = "explicit"
    /\ SetLocals(ExplicitPass(locals, interfaceMethodsMap, structsMap))
    /\ pc' = "direct"
    /\ UNCHANGED <<result, caller, doc, interfaceMethodsMap, structMethodsMap, structsMap,
                   hasNewImplementation, iterations, decorations, cacheVars, managerVars, otherVars>>

Direct ==
    /\ pc = "direct"
    /\ SetLocals(DirectPass(locals, interfaceMethodsMap, structMethodsMap))
    /\ pc' = "embedding"
    /\ hasNewImplementation' = TRUE
    /\ iterations' = 0
    /\ UNCHANGED <<result, caller, doc, interfaceMethodsMap, structMethodsMap, structsMap,
                   decorations, cacheVars, managerVars, otherVars>>

\* the loop body without 'hasNewImplementation = false'
EmbeddingFlagKept ==
    /\ pc = "embedding"
    /\ hasNewImplementation /\ iterations < maxIterations
    /\ SetLocals(EmbedIteration(locals, structsMap.order, structsMap))
    /\ hasNewImplementation' = TRUE
    /\ iterations' = iterations + 1
    /\ UNCHANGED <<result, caller, doc, pc, interfaceMethodsMap, structMethodsMap, structsMap,
                   decorations, cacheVars, managerVars, otherVars>>

\* one iteration of while (hasNewImplementation && iterations < maxIterations)
Embedding ==
    /\ pc = "embedding"
    /\ hasNewImplementation /\ iterations < maxIterations
    /\ LET s == EmbedIteration(locals, structsMap.order, structsMap)
       IN /\ SetLocals(s)
          /\ hasNewImplementation' = (s # locals)
    /\ iterations' = iterations + 1
    /\ UNCHANGED <<result, caller, doc, pc, interfaceMethodsMap, structMethodsMap, structsMap,
                   decorations, cacheVars, managerVars, otherVars>>

EmbeddingExit ==
    /\ pc = "embedding"
    /\ ~(hasNewImplementation /\ iterations < maxIterations)
    /\ pc' = "pointer"
    /\ UNCHANGED <<result, caller, doc, interfaceMethodsMap, structMethodsMap, structsMap,
                   implementedInterfaces, interfaceImplementations,
                   hasNewImplementation, iterations, decorations, cacheVars, managerVars, otherVars>>

Pointer ==
    /\ pc = "pointer"
    /\ SetLocals(PointerPass(locals, interfaceMethodsMap, structMethodsMap, ReceiverNames(result)))
    /\ pc' = IF caller = "getAllDecorations" THEN "decorate" ELSE "done"
    /\ UNCHANGED <<result, caller, doc, interfaceMethodsMap, structMethodsMap, structsMap,
                   hasNewImplementation, iterations, decorations, cacheVars, managerVars, otherVars>>

\* the rest of getAllDecorations; document.uri is first read here (docKey)
Decorate ==
    /\ pc = "decorate"
    /\ \E d \in Files :
         /\ doc' = d
         /\ decorations' = DecorationsOf(implementedInterfaces, result, interfaceMethodsMap,
                                         structMethodsMap, d)
    /\ pc' = "done"
    /\ UNCHANGED <<result, caller, interfaceMethodsMap, structMethodsMap, structsMap,
                   implementedInterfaces, interfaceImplementations,
                   hasNewImplementation, iterations, cacheVars, managerVars, otherVars>>

Next ==
    \/ GetAllDecorations
    \/ CheckAnnotated
    \/ Explicit
    \/ Direct
    \/ Embedding
    \/ EmbeddingExit
    \/ Pointer
    \/ Decorate

Spec == Init /\ [][Next]_vars

\* --- family 4: File is declared in two files of the package (as under
\* build constraints), each declaration with or without the embedded Base
DupDecls ==
    {<<Struct("File", "int", e1, <<>>, FileA, 10), Struct("File", "int", e2, a, FileB, 10)>> :
        e1 \in {"", "Base"}, e2 \in {"", "Base"}, a \in {<<>>, <<"Reader">>}}
BaseDecl == <<Struct("Base", "int", "", <<>>, FileA, 30)>>
DupTables ==
    {Package(<<Iface("Reader", <<"Read">>, FileA, 0)>>, ss, ms) :
        ss \in UNION {{BaseDecl \o d, d \o BaseDecl, SubSeq(d, 1, 1) \o BaseDecl \o SubSeq(d, 2, 2)} :
                        d \in DupDecls},
        ms \in {MethodOf("Base", "Read", br, FileA, 40) : br \in {"none", "value"}}}

InitDup ==
    /\ result \in DupTables
    /\ ResolveIdle
    /\ CacheIdle

SpecDup == InitDup /\ [][Next]_vars

\* one run of the extractor
InitExtract ==
    /\ extractor \in {Started(tree, dirPath) : tree \in DirTrees, dirPath \in ScanDirs}
                     \cup {Started(tree, DirD) : tree \in InterfaceTrees}
    /\ result = EmptyResult
    /\ ResolveIdle
    /\ CachesEmpty
    /\ gopls = NotStarted
    /\ manager = NotStarted
    /\ controller = NotStarted

NextExtract == ProcessDirPath \/ ParseFile \/ Fallback \/ PrintResult

SpecExtract == InitExtract /\ [][NextExtract]_vars

\* one run of the extractor over a file with one annotated struct
InitComments ==
    /\ extractor \in {Started(tree, DirD) : tree \in CommentTrees}
    /\ result = EmptyResult
    /\ ResolveIdle
    /\ CachesEmpty
    /\ gopls = NotStarted
    /\ manager = NotStarted
    /\ controller = NotStarted

SpecComments == InitComments /\ [][NextExtract]_vars

----------------------------------------------------------------------------
(* goAstParser.ts: parseGoFile, clearCache and the four cache maps.        *)
(* SpecCache interleaves the calls with changes of the files and with the  *)
(* passing of time; a call yields at its two awaits.  calls holds the      *)
(* calls in flight; hist records what the last call of each path was and   *)
(* what the most recent call returned.                                     *)

PathA == "/p/a.go"
PathB == "/p/b.go"
PathC == "/q/c.go"

\* getPackagePath: path.dirname(filePath)
getPackagePath(p) == IF p = PathC THEN "/q" ELSE "/p"

\* the Go files the behaviour is about, and their directories
Paths == DOMAIN fsText.kind
Dirs == DOMAIN fsText.version

fileCacheTimeToLive == 30000
cacheTimeToLive == 300000

\* how far Date.now() has moved on when a call reads it, and how many calls
\* of a behaviour find that it has moved
TickSteps == {0, 20000, 290000}
MaxTicks == 1
\* number of parseGoFile calls and of file changes in one behaviour
MaxCalls == 2
MaxChanges == 1
\* the file that changes on disk (its sibling stays as it is)
ChangedPaths == {PathA}

\* a file on disk: it parses, it has a syntax error, or it does not exist
FileKinds == {"ok", "broken", "absent"}

\* what the extractor prints for directory d: the declarations of the files
\* that parse (identified by the version of the directory's text), and no
\* package at all when no file of d parses
ExtractorOutput(fs, d) ==
    IF \E p \in DOMAIN fs.kind : getPackagePath(p) = d /\ fs.kind[p] = "ok"
    THEN [packages |-> <<[path |-> d, name |-> "p", text |-> fs.version[d]]>>]
    ELSE EmptyResult

MapGetOr(m, k, default) == IF k \in DOMAIN m THEN m[k] ELSE default

\* the freshness test with the comparison turned around
FreshInverted(t, cacheTime, ttl) == t - cacheTime > ttl

\* now - cacheTime < ttl
Fresh(t, cacheTime, ttl) == t - cacheTime < ttl

FileCacheHit(p, t) ==
    p \in DOMAIN fileCache /\ Fresh(t, MapGetOr(fileCacheTimes, p, 0), fileCacheTimeToLive)
PackageCacheHit(d, t) ==
    d \in DOMAIN parseCache /\ Fresh(t, MapGetOr(cacheTimes, d, 0), cacheTimeToLive)

InFlight == DOMAIN calls

\* no call, no result yet
None == [none |-> TRUE]
Pending == "pending"

\* the last call started for a path: its start time, what it returned (None
\* while it is in flight), whether no other call was in flight since it
\* started (alone); a file change in the directory or a clearCache puts
\* NoLast in its place
NoLast == [id |-> 0, now |-> 0, via |-> Pending, ret |-> None, alone |-> FALSE]

\* floor: the version of the directory's text at the last clearCache(path)
\* made with no call in flight; first: no parseGoFile of that directory has
\* started since; NoClear when there was no such clearCache
NoClear == [none |-> TRUE]

\* op: the clearCache call the step just taken made, None after any other step
\* midway: for a path, the last clearCache(path) made while calls for the
\* path were in flight (floor as above, pending the calls that have yet to
\* return), None when there was none or a call started after them took it
HistStart(ps) ==
    [started |-> 0, ticks |-> 0, changes |-> 0,
     last |-> [p \in ps |-> NoLast],
     cleared |-> [p \in ps |-> NoClear],
     returned |-> None,
     op |-> None,
     watch |-> "order",
     midway |-> [p \in ps |-> None],
     saved |-> None]

\* what the history keeps of a behaviour: "order" keeps last and cleared,
\* "siblings" keeps cleared and the sibling of a call, "overlap" keeps midway
\* and which call overtook which, "sequence" keeps the run that made each
\* result, "frame" keeps op, "query" keeps the return alone
Watches(w) == hist.watch = w

KeepsCleared == Watches("order") \/ Watches("siblings")

\* "retry" keeps last, in behaviours of calls made one after the other
KeepsLast == Watches("order") \/ Watches("retry")

\* the return of a call is kept with the call's number and start time
KeepsCall == Watches("overlap") \/ Watches("sequence")

\* in the "sequence" behaviours a call starts only when none is in flight
Sequential == Watches("sequence") \/ Watches("retry")

\* behaviours in which a call starts only when none is in flight have one
\* call more than those in which calls overlap
CallLimit == IF Sequential THEN MaxCalls + 1 ELSE MaxCalls

\* the parser service is the current one (auto mode, parser available)
ManagerIdle ==
    /\ currentService = "parser"
    /\ decorationCache = EmptyMap
    /\ OthersIdle

\* the parser's caches, the disk and the history at activation
CacheStartWith(kind, watch) ==
    /\ now = 0
    /\ fsText = [kind |-> kind,
                 version |-> [d \in {getPackagePath(p) : p \in DOMAIN kind} |-> 0]]
    /\ fileCache = EmptyMap
    /\ fileCacheTimes = EmptyMap
    /\ parseCache = EmptyMap
    /\ cacheTimes = EmptyMap
    /\ packageCache = EmptyMap
    /\ isParserReady = FALSE
    /\ calls = EmptyMap
    /\ hist = [HistStart(DOMAIN kind) EXCEPT !.watch = watch]
    /\ result = EmptyResult
    /\ ResolveIdle

CacheStart(kind) == CacheStartWith(kind, "order")

CacheInitWith(kind) ==
    /\ ManagerIdle
    /\ CacheStart(kind)

\* a.go and possibly b.go in one directory
InitCache ==
    \E kb \in {"ok", "absent"} :
        CacheInitWith([p \in {PathA, PathB} |-> IF p = PathB THEN kb ELSE "ok"])

\* what a call that starts now knows of the call before it for the same path
PrevOf(p, t) ==
    LET l == hist.last[p]
    IN IF l.id # 0 /\ l.ret # None
       THEN [ret |-> l.ret, via |-> l.via, alone |-> l.alone /\ InFlight = {}, age |-> t - l.now]
       ELSE None

\* the calls for p that are in flight
AwaitedFor(p) == {c \in DOMAIN calls : calls[c].path = p}

\* what a call that starts now knows of a clearCache(p) made while earlier
\* calls for p were in flight, all of which have returned
MidwayOf(p) ==
    IF hist.midway[p] # None /\ hist.midway[p].pending = {}
    THEN [floor |-> hist.midway[p].floor]
    ELSE None

\* the other files of p's directory for which clearCache ran with no call in
\* flight and no parseGoFile of the directory since
ClearedSiblings(p) ==
    {q \in Paths \ {p} : /\ getPackagePath(q) = getPackagePath(p)
                          /\ hist.cleared[q] # NoClear
                          /\ hist.cleared[q].first}

\* what a call that starts now knows of such a clearCache of a sibling
SiblingOf(p) ==
    IF ~Watches("siblings") \/ ClearedSiblings(p) = {} THEN None
    ELSE LET q == CHOOSE x \in ClearedSiblings(p) : TRUE
         IN [path |-> q, floor |-> hist.cleared[q].floor]

\* const now = Date.now()
CallRecord(p, id, t) ==
    [path |-> p, id |-> id, now |-> t, pc |-> "ready", out |-> EmptyResult,
     prev |-> PrevOf(p, t), cleared |-> hist.cleared[p], sibling |-> SiblingOf(p),
     save |-> None, overtaken |-> None, midway |-> MidwayOf(p)]

ReturnRecord(c, via, ret) ==
    [path |-> c.path,
     call |-> IF KeepsCall THEN [id |-> c.id, now |-> c.now] ELSE None,
     via |-> via, ret |-> ret,
     prev |-> c.prev, cleared |-> c.cleared,
     sibling |-> c.sibling, save |-> c.save, overtaken |-> c.overtaken,
     midway |-> c.midway]

\* hist after a step in which no call returns
NoReturn(h) == [h EXCEPT !.returned = None, !.op = None]

\* hist when call c starts; what only a later call would look at is not
\* kept once the last call of the behaviour has started
HistAtStart(c, via, ret) ==
    [hist EXCEPT
       !.started = @ + 1,
       !.ticks = IF c.now = now THEN @ ELSE @ + 1,
       !.last = [q \in Paths |->
                   IF c.id = CallLimit \/ ~KeepsLast THEN NoLast
                   ELSE IF q = c.path
                   THEN [id |-> c.id, now |-> c.now, via |-> via, ret |-> ret,
                         alone |-> InFlight = {}]
                   ELSE [@[q] EXCEPT !.alone = FALSE]],
       !.cleared = [q \in Paths |->
                      IF c.id = CallLimit \/ ~KeepsCleared THEN NoClear
                      ELSE IF getPackagePath(q) = getPackagePath(c.path)
                      THEN (IF @[q] = NoClear THEN NoClear
                            ELSE [floor |-> @[q].floor, first |-> FALSE])
                      ELSE @[q]],
       !.midway = [q \in Paths |->
                     IF c.id = CallLimit \/ (q = c.path /\ c.midway # None)
                     THEN None ELSE @[q]],
       !.returned = IF ret = None THEN None ELSE ReturnRecord(c, via, ret),
       !.op = None]

\* hist when call c returns
HistAtReturn(c, via, ret) ==
    [hist EXCEPT
       !.last[c.path] = IF @.id = c.id THEN [@ EXCEPT !.via = via, !.ret = ret] ELSE @,
       !.midway[c.path] = IF @ = None THEN @ ELSE [@ EXCEPT !.pending = @ \ {c.id}],
       !.returned = ReturnRecord(c, via, ret),
       !.op = None]

\* parseGoFile up to its first await: Date.now() has moved on by d since it
\* was last read, then the two cache levels
ParseGoFile(p, d) ==
    /\ hist.started < CallLimit
    /\ Sequential => InFlight = {}
    /\ d = 0 \/ hist.ticks < MaxTicks
    /\ now' = now + d
    /\ LET c == CallRecord(p, hist.started + 1, now + d)
           packagePath == getPackagePath(p)
       IN IF FileCacheHit(p, c.now)
          THEN /\ hist' = HistAtStart(c, "file", fileCache[p])
               /\ UNCHANGED <<fileCache, fileCacheTimes, packageCache, calls>>
          ELSE /\ packageCache' = MapSet(packageCache, p, packagePath)
               /\ IF PackageCacheHit(packagePath, c.now)
                  THEN /\ fileCache' = MapSet(fileCache, p, parseCache[packagePath])
                       /\ fileCacheTimes' = MapSet(fileCacheTimes, p, c.now)
                       /\ hist' = HistAtStart(c, "package", parseCache[packagePath])
                       /\ UNCHANGED calls
                  ELSE /\ calls' = MapSet(calls, c.id, c)
                       /\ hist' = HistAtStart(c, Pending, None)
                       /\ UNCHANGED <<fileCache, fileCacheTimes>>
    /\ UNCHANGED <<fsText, parseCache, cacheTimes, isParserReady, resolveVars,
                   managerVars, otherVars>>

\* the calls left in flight when call c returns: those for c's path have
\* seen a call that ran the extractor complete before them
Overtaken(c, via) ==
    [k \in DOMAIN calls \ {c} |->
        IF /\ calls[k].path = calls[c].path
           /\ via \in {"parsed", "failed"}
           /\ Watches("overlap")
        THEN [calls[k] EXCEPT !.overtaken = [id |-> calls[c].id]]
        ELSE calls[k]]

Return(c, via, ret) ==
    /\ calls' = Overtaken(c, via)
    /\ hist' = HistAtReturn(calls[c], via, ret)

\* await ensureParserReady() gives true: the binary is there (or was built);
\* then fs.existsSync(filePath), then the extractor process is started
ParserReady(c) ==
    /\ c \in DOMAIN calls /\ calls[c].pc = "ready"
    /\ isParserReady' = TRUE
    /\ IF fsText.kind[calls[c].path] = "absent"
       THEN Return(c, "nofile", EmptyResult)
       ELSE calls' = [calls EXCEPT ![c].pc = "spawned"] /\ hist' = NoReturn(hist)
    /\ UNCHANGED <<now, fsText, fileCache, fileCacheTimes, parseCache, cacheTimes,
                   packageCache, resolveVars,
                   managerVars, otherVars>>

\* await ensureParserReady() gives false: no binary and no way to build one
ParserNotReady(c) ==
    /\ c \in DOMAIN calls /\ calls[c].pc = "ready"
    /\ ~isParserReady
    /\ Return(c, "notready", EmptyResult)
    /\ UNCHANGED <<now, fsText, fileCache, fileCacheTimes, parseCache, cacheTimes,
                   packageCache, isParserReady, resolveVars,
                   managerVars, otherVars>>

\* the object that JSON.parse makes of the output of the run started by the
\* call of time t: run tells the objects of different runs apart
OutputOfRun(r, t) ==
    IF Len(r.packages) = 0 \/ ~Watches("sequence") THEN r
    ELSE [packages |-> r.packages, run |-> t]

\* the extractor process reads the directory (goparser.go, parseDirectory)
ExtractorReads(c) ==
    /\ c \in DOMAIN calls /\ calls[c].pc = "spawned"
    /\ calls' = [calls EXCEPT ![c].pc = "read",
                              ![c].out = OutputOfRun(ExtractorOutput(fsText,
                                                       getPackagePath(calls[c].path)),
                                                     calls[c].now)]
    /\ hist' = NoReturn(hist)
    /\ UNCHANGED <<now, fsText, fileCache, fileCacheTimes, parseCache, cacheTimes,
                   packageCache, isParserReady, resolveVars,
                   managerVars, otherVars>>

\* execFile resolves and an entry that is already there is kept
ExecSucceedsKeepsEntry(c) ==
    /\ c \in DOMAIN calls /\ calls[c].pc = "read"
    /\ LET r == calls[c].out
           p == calls[c].path
           cacheKey == getPackagePath(p)
       IN /\ IF Len(r.packages) > 0 /\ p \notin DOMAIN fileCache
             THEN /\ parseCache' = MapSet(parseCache, cacheKey, r)
                  /\ cacheTimes' = MapSet(cacheTimes, cacheKey, calls[c].now)
                  /\ fileCache' = MapSet(fileCache, p, r)
                  /\ fileCacheTimes' = MapSet(fileCacheTimes, p, calls[c].now)
             ELSE UNCHANGED <<parseCache, cacheTimes, fileCache, fileCacheTimes>>
          /\ Return(c, "parsed", r)
    /\ UNCHANGED <<now, fsText, packageCache, isParserReady, resolveVars,
                   managerVars, otherVars>>

\* execFile resolves and only the file level is written
ExecSucceedsFileOnly(c) ==
    /\ c \in DOMAIN calls /\ calls[c].pc = "read"
    /\ LET r == calls[c].out
           p == calls[c].path
       IN /\ IF Len(r.packages) > 0
             THEN /\ fileCache' = MapSet(fileCache, p, r)
                  /\ fileCacheTimes' = MapSet(fileCacheTimes, p, calls[c].now)
             ELSE UNCHANGED <<fileCache, fileCacheTimes>>
          /\ Return(c, "parsed", r)
    /\ UNCHANGED <<now, fsText, parseCache, cacheTimes, packageCache, isParserReady,
                   resolveVars, managerVars, otherVars>>

\* execFile resolves and both levels are written whatever the output holds
ExecSucceedsUnguarded(c) ==
    /\ c \in DOMAIN calls /\ calls[c].pc = "read"
    /\ LET r == calls[c].out
           p == calls[c].path
           cacheKey == getPackagePath(p)
       IN /\ parseCache' = MapSet(parseCache, cacheKey, r)
          /\ cacheTimes' = MapSet(cacheTimes, cacheKey, calls[c].now)
          /\ fileCache' = MapSet(fileCache, p, r)
          /\ fileCacheTimes' = MapSet(fileCacheTimes, p, calls[c].now)
          /\ Return(c, "parsed", r)
    /\ UNCHANGED <<now, fsText, packageCache, isParserReady, resolveVars,
                   managerVars, otherVars>>

\* execFile resolves and stdout parses: both levels are written when there
\* is a package, with the time taken at the start of the call
ExecSucceeds(c) ==
    /\ c \in DOMAIN calls /\ calls[c].pc = "read"
    /\ LET r == calls[c].out
           p == calls[c].path
           cacheKey == getPackagePath(p)
       IN /\ IF Len(r.packages) > 0
             THEN /\ parseCache' = MapSet(parseCache, cacheKey, r)
                  /\ cacheTimes' = MapSet(cacheTimes, cacheKey, calls[c].now)
                  /\ fileCache' = MapSet(fileCache, p, r)
                  /\ fileCacheTimes' = MapSet(fileCacheTimes, p, calls[c].now)
             ELSE UNCHANGED <<parseCache, cacheTimes, fileCache, fileCacheTimes>>
          /\ Return(c, "parsed", r)
    /\ UNCHANGED <<now, fsText, packageCache, isParserReady, resolveVars,
                   managerVars, otherVars>>

\* execFile rejects and the call returns what the extractor had printed
ExecFailsKeepsOutput(c) ==
    /\ c \in DOMAIN calls /\ calls[c].pc = "read"
    /\ Return(c, "failed", calls[c].out)
    /\ UNCHANGED <<now, fsText, fileCache, fileCacheTimes, parseCache, cacheTimes,
                   packageCache, isParserReady, resolveVars,
                   managerVars, otherVars>>

\* the extractor process has ended and execFile rejects, or stdout is not
\* JSON with a packages member
ExecFails(c) ==
    /\ c \in DOMAIN calls /\ calls[c].pc = "read"
    /\ Return(c, "failed", EmptyResult)
    /\ UNCHANGED <<now, fsText, fileCache, fileCacheTimes, parseCache, cacheTimes,
                   packageCache, isParserReady, resolveVars,
                   managerVars, otherVars>>

\* some call of the behaviour has yet to look at the disk
DiskWillBeRead ==
    \/ hist.started < CallLimit
    \/ \E c \in DOMAIN calls : calls[c].pc \in {"ready", "spawned"}

Disturbed(l) == [q \in DOMAIN l |-> NoLast]

\* hist after clearCache(p)
HistAtClear(p) ==
    [hist EXCEPT !.returned = None,
                 !.op = IF Watches("frame") THEN [clearCache |-> p] ELSE None,
                 !.last = Disturbed(@),
                 !.cleared[p] = IF hist.started = CallLimit \/ ~KeepsCleared
                                THEN NoClear
                                ELSE IF InFlight = {}
                                THEN [floor |-> fsText.version[getPackagePath(p)], first |-> TRUE]
                                ELSE @,
                 !.midway[p] = IF \/ hist.started = CallLimit
                                  \/ AwaitedFor(p) = {}
                                  \/ ~Watches("overlap")
                               THEN None
                               ELSE [floor |-> fsText.version[getPackagePath(p)],
                                     pending |-> AwaitedFor(p)]]

\* clearCache(p) finds an entry to delete, or a call for p is in flight (one
\* that finds neither changes nothing)
Cached(p) ==
    \/ p \in DOMAIN fileCache \cup DOMAIN fileCacheTimes
    \/ MapGetOr(packageCache, p, getPackagePath(p)) \in DOMAIN parseCache \cup DOMAIN cacheTimes
    \/ AwaitedFor(p) # {} /\ hist.started < CallLimit /\ Watches("overlap")

\* clearCache(filePath) that forgets the package level
ClearCacheFileOnly(p) ==
    /\ Cached(p)
    /\ fileCache' = MapDelete(fileCache, p)
    /\ fileCacheTimes' = MapDelete(fileCacheTimes, p)
    /\ hist' = HistAtClear(p)
    /\ UNCHANGED <<now, fsText, parseCache, cacheTimes, packageCache, isParserReady, calls,
                   resolveVars,
                   managerVars, otherVars>>

\* clearCache(filePath) that deletes the results and leaves their times
ClearCacheKeepsTimes(p) ==
    /\ Cached(p)
    /\ fileCache' = MapDelete(fileCache, p)
    /\ LET packagePath == MapGetOr(packageCache, p, getPackagePath(p))
       IN parseCache' = MapDelete(parseCache, packagePath)
    /\ hist' = HistAtClear(p)
    /\ UNCHANGED <<now, fsText, fileCacheTimes, cacheTimes, packageCache, isParserReady,
                   calls, resolveVars, managerVars, otherVars>>

\* clearCache(filePath) that empties the package level
ClearCacheEveryPackage(p) ==
    /\ Cached(p)
    /\ fileCache' = MapDelete(fileCache, p)
    /\ fileCacheTimes' = MapDelete(fileCacheTimes, p)
    /\ parseCache' = EmptyMap
    /\ cacheTimes' = EmptyMap
    /\ hist' = HistAtClear(p)
    /\ UNCHANGED <<now, fsText, packageCache, isParserReady, calls, resolveVars,
                   managerVars, otherVars>>

\* clearCache(filePath)
ClearCache(p) ==
    /\ Cached(p)
    /\ fileCache' = MapDelete(fileCache, p)
    /\ fileCacheTimes' = MapDelete(fileCacheTimes, p)
    /\ LET packagePath == MapGetOr(packageCache, p, getPackagePath(p))
       IN /\ parseCache' = MapDelete(parseCache, packagePath)
          /\ cacheTimes' = MapDelete(cacheTimes, packagePath)
    /\ hist' = HistAtClear(p)
    /\ UNCHANGED <<now, fsText, packageCache, isParserReady, calls, resolveVars,
                   managerVars, otherVars>>

\* clearCache()
ClearAll ==
    /\ \E p \in Paths : Cached(p)
    /\ fileCache' = EmptyMap
    /\ fileCacheTimes' = EmptyMap
    /\ parseCache' = EmptyMap
    /\ cacheTimes' = EmptyMap
    /\ hist' = [hist EXCEPT !.returned = None,
                             !.op = IF Watches("frame") THEN [clearCache |-> "all"]
                                    ELSE None,
                             !.last = Disturbed(@)]
    /\ UNCHANGED <<now, fsText, packageCache, isParserReady, calls, resolveVars,
                   managerVars, otherVars>>

\* a file is written, created or deleted on disk
ChangeFile(p, k) ==
    /\ hist.changes < MaxChanges
    /\ DiskWillBeRead
    /\ ~(fsText.kind[p] = "absent" /\ k = "absent")
    /\ fsText' = [fsText EXCEPT !.kind[p] = k, !.version[getPackagePath(p)] = @ + 1]
    /\ hist' = [hist EXCEPT
                  !.returned = None,
                  !.op = None,
                  !.changes = @ + 1,
                  !.last = [q \in Paths |->
                              IF getPackagePath(q) = getPackagePath(p) THEN NoLast ELSE @[q]]]
    /\ UNCHANGED <<now, fileCache, fileCacheTimes, parseCache, cacheTimes, packageCache,
                   isParserReady, calls, resolveVars,
                   managerVars, otherVars>>

NextCache ==
    \/ \E p \in Paths, d \in TickSteps : ParseGoFile(p, d)
    \/ \E c \in DOMAIN calls : ParserReady(c)
    \/ \E c \in DOMAIN calls : ParserNotReady(c)
    \/ \E c \in DOMAIN calls : ExtractorReads(c)
    \/ \E c \in DOMAIN calls : ExecSucceeds(c)
    \/ \E c \in DOMAIN calls : ExecFails(c)
    \/ \E p \in Paths : ClearCache(p)
    \/ ClearAll
    \/ \E p \in ChangedPaths, k \in FileKinds : ChangeFile(p, k)

SpecCache == InitCache /\ [][NextCache]_vars

\* a.go and c.go in two directories
InitDirs ==
    /\ ManagerIdle
    /\ CacheStartWith([p \in {PathA, PathC} |-> "ok"], "frame")

SpecDirs == InitDirs /\ [][NextCache]_vars

\* a.go and b.go in one directory, calls one after the other
InitSeq ==
    /\ ManagerIdle
    /\ CacheStartWith([p \in {PathA, PathB} |-> "ok"], "sequence")

SpecSeq == InitSeq /\ [][NextCache]_vars

\* a.go and possibly b.go in one directory, calls one after the other, the
\* last call of each path kept
InitRetry ==
    /\ ManagerIdle
    /\ \E kb \in {"ok", "absent"} :
          CacheStartWith([p \in {PathA, PathB} |-> IF p = PathB THEN kb ELSE "ok"], "retry")

SpecRetry == InitRetry /\ [][NextCache]_vars

\* a.go and possibly b.go in one directory, clearCache of a sibling
InitSiblings ==
    /\ ManagerIdle
    /\ \E kb \in {"ok", "absent"} :
          CacheStartWith([p \in {PathA, PathB} |-> IF p = PathB THEN kb ELSE "ok"],
                         "siblings")

SpecSiblings == InitSiblings /\ [][NextCache]_vars

\* a.go alone in its directory (b.go is not on disk), overlapping calls
InitOverlap ==
    /\ ManagerIdle
    /\ CacheStartWith([p \in {PathA, PathB} |-> IF p = PathB THEN "absent" ELSE "ok"],
                      "overlap")

SpecOverlap == InitOverlap /\ [][NextCache]_vars

----------------------------------------------------------------------------
(* The save handler (extension.ts, onDidSaveTextDocument), ParserManager   *)
(* and GoplsService.getAllDecorations.  The handler clears the cache of    *)
(* the GoAstParser and asks ParserManager, which asks the current service. *)

cacheTTL == 30000

\* vscode.Uri.file(filePath).toString()
DocKey(p) == "file://" \o p

\* what gopls answers for the document as it is now
GoplsOutput(fs, p) == [decorations |-> fs.version[getPackagePath(p)]]
EmptyDecorations == [decorations |-> -1]

\* GoplsService.getAllDecorations finds a fresh entry for the document
DecorationCacheHit(p, t) ==
    /\ DocKey(p) \in DOMAIN decorationCache
    /\ t - decorationCache[DocKey(p)].timestamp < cacheTTL

\* the record of a call that the save handler issues at time t
SaveCallRecord(p, id, t, version) ==
    [CallRecord(p, id, t) EXCEPT !.prev = None, !.cleared = NoClear, !.sibling = None,
                                 !.save = [version |-> version]]

HistAtSave(c, via, ret) ==
    [hist EXCEPT
       !.started = @ + 1,
       !.changes = @ + 1,
       !.ticks = IF c.now = now THEN @ ELSE @ + 1,
       !.last = Disturbed(@),
       !.cleared = [q \in Paths |-> NoClear],
       !.midway = [q \in Paths |-> None],
       !.returned = IF ret = None THEN None ELSE ReturnRecord(c, via, ret),
       !.op = None]

\* GoplsService.getAllDecorations up to its first await
GoplsGetAllDecorations(p, d) ==
    /\ currentService = "gopls"
    /\ hist.started < MaxCalls
    /\ d = 0 \/ hist.ticks < MaxTicks
    /\ now' = now + d
    /\ LET c == [CallRecord(p, hist.started + 1, now + d) EXCEPT !.pc = "symbols"]
       IN IF DecorationCacheHit(p, c.now)
          THEN /\ hist' = HistAtStart(c, "decorationCache", decorationCache[DocKey(p)].result)
               /\ UNCHANGED calls
          ELSE /\ calls' = MapSet(calls, c.id, c)
               /\ hist' = HistAtStart(c, Pending, None)
    /\ UNCHANGED <<fsText, fileCache, fileCacheTimes, parseCache, cacheTimes, packageCache,
                   isParserReady, resolveVars, managerVars, otherVars>>

\* getDocumentSymbols and the requests after it are answered by gopls
GoplsAnswers(c) ==
    /\ c \in DOMAIN calls /\ calls[c].pc = "symbols"
    /\ calls' = [calls EXCEPT ![c].pc = "answered",
                              ![c].out = GoplsOutput(fsText, calls[c].path)]
    /\ hist' = NoReturn(hist)
    /\ UNCHANGED <<now, fsText, fileCache, fileCacheTimes, parseCache, cacheTimes,
                   packageCache, isParserReady, resolveVars, managerVars, otherVars>>

\* the decorations are built, stored with the time of the start, returned
GoplsCompletes(c) ==
    /\ c \in DOMAIN calls /\ calls[c].pc = "answered"
    /\ decorationCache' = MapSet(decorationCache, DocKey(calls[c].path),
                                 [result |-> calls[c].out, timestamp |-> calls[c].now])
    /\ Return(c, "gopls", calls[c].out)
    /\ UNCHANGED <<now, fsText, fileCache, fileCacheTimes, parseCache, cacheTimes,
                   packageCache, isParserReady, resolveVars, currentService, otherVars>>

\* no symbols, or a request throws: empty lists, nothing stored
GoplsFails(c) ==
    /\ c \in DOMAIN calls /\ calls[c].pc \in {"symbols", "answered"}
    /\ Return(c, "goplsfailed", EmptyDecorations)
    /\ UNCHANGED <<now, fsText, fileCache, fileCacheTimes, parseCache, cacheTimes,
                   packageCache, isParserReady, resolveVars, managerVars, otherVars>>

\* ParserManager.getAllDecorations: the current service's getAllDecorations,
\* which for the parser starts with parseGoFile(document.uri.fsPath)
ManagerGetAllDecorations(p, d) ==
    \/ currentService = "parser" /\ ParseGoFile(p, d)
    \/ GoplsGetAllDecorations(p, d)

\* onDidSaveTextDocument for the active document: the saved text is on disk,
\* this.parser.clearCache(fsPath) clears the GoAstParser, updateDecorations
\* asks ParserManager.getAllDecorations
SaveDocument(p, d) ==
    /\ fsText.kind[p] = "ok"
    /\ hist.changes < MaxChanges
    /\ hist.started < MaxCalls
    /\ d = 0 \/ hist.ticks < MaxTicks
    /\ now' = now + d
    /\ fsText' = [fsText EXCEPT !.version[getPackagePath(p)] = @ + 1]
    /\ fileCache' = MapDelete(fileCache, p)
    /\ fileCacheTimes' = MapDelete(fileCacheTimes, p)
    /\ LET packagePath == MapGetOr(packageCache, p, getPackagePath(p))
       IN /\ parseCache' = MapDelete(parseCache, packagePath)
          /\ cacheTimes' = MapDelete(cacheTimes, packagePath)
    /\ LET c == SaveCallRecord(p, hist.started + 1, now + d,
                               fsText.version[getPackagePath(p)] + 1)
       IN IF currentService = "parser"
          THEN /\ packageCache' = MapSet(packageCache, p, getPackagePath(p))
               /\ calls' = MapSet(calls, c.id, c)
               /\ hist' = HistAtSave(c, Pending, None)
          ELSE /\ UNCHANGED packageCache
               /\ IF DecorationCacheHit(p, c.now)
                  THEN /\ hist' = HistAtSave(c, "decorationCache",
                                             decorationCache[DocKey(p)].result)
                       /\ UNCHANGED calls
                  ELSE /\ calls' = MapSet(calls, c.id, [c EXCEPT !.pc = "symbols"])
                       /\ hist' = HistAtSave(c, Pending, None)
    /\ UNCHANGED <<isParserReady, resolveVars, managerVars, otherVars>>

\* one open document; the current service is the parser or gopls
InitSave ==
    /\ currentService \in {"parser", "gopls"}
    /\ decorationCache = EmptyMap
    /\ OthersIdle
    /\ CacheStart([p \in {PathA} |-> "ok"])

NextSave ==
    \/ \E p \in Paths, d \in TickSteps : ManagerGetAllDecorations(p, d)
    \/ \E p \in Paths, d \in TickSteps : SaveDocument(p, d)
    \/ \E c \in DOMAIN calls : ParserReady(c)
    \/ \E c \in DOMAIN calls : ParserNotReady(c)
    \/ \E c \in DOMAIN calls : ExtractorReads(c)
    \/ \E c \in DOMAIN calls : ExecSucceeds(c)
    \/ \E c \in DOMAIN calls : ExecFails(c)
    \/ \E c \in DOMAIN calls : GoplsAnswers(c)
    \/ \E c \in DOMAIN calls : GoplsCompletes(c)
    \/ \E c \in DOMAIN calls : GoplsFails(c)

SpecSave == InitSave /\ [][NextSave]_vars

\* the document of vscode.window.activeTextEditor
ActiveDocument == PathA

\* onDidSaveTextDocument(document): the text is on disk; the handler acts
\* when document === editor.document and does nothing for another document
OnDidSaveTextDocument(document, d) ==
    IF document = ActiveDocument
    THEN SaveDocument(document, d)
    ELSE /\ fsText.kind[document] = "ok"
         /\ hist.changes < MaxChanges
         /\ d = 0
         /\ fsText' = [fsText EXCEPT !.version[getPackagePath(document)] = @ + 1]
         /\ hist' = [NoReturn(hist) EXCEPT
                       !.changes = @ + 1,
                       !.saved = [path |-> document,
                                  version |-> fsText.version[getPackagePath(document)] + 1,
                                  started |-> hist.started]]
         /\ UNCHANGED <<now, fileCache, fileCacheTimes, parseCache, cacheTimes, packageCache,
                        isParserReady, calls, resolveVars, managerVars, otherVars>>

\* a.go is the active document, b.go is open in another editor
InitSaveOther ==
    /\ ManagerIdle
    /\ CacheStartWith([p \in {PathA, PathB} |-> "ok"], "sequence")

NextSaveOther ==
    \/ \E p \in Paths, d \in TickSteps : ParseGoFile(p, d)
    \/ \E c \in DOMAIN calls : ParserReady(c)
    \/ \E c \in DOMAIN calls : ParserNotReady(c)
    \/ \E c \in DOMAIN calls : ExtractorReads(c)
    \/ \E c \in DOMAIN calls : ExecSucceeds(c)
    \/ \E c \in DOMAIN calls : ExecFails(c)
    \/ \E document \in Paths, d \in TickSteps : OnDidSaveTextDocument(document, d)

SpecSaveOther == InitSaveOther /\ [][NextSaveOther]_vars

----------------------------------------------------------------------------
(* goplsService.ts: parseImplementsComments.  The text of the document is  *)
(* a sequence of pieces: a word (\w+, words are never adjacent), one white *)
(* space character, a comment marker, a comma or a brace.                  *)

Words == {"ensure", "Ensure", "implements", "type", "struct", "interface", "S", "I", "J"}

\* \w+, \s and [\w,\s]
IsWord(c) == c \in Words
IsWhite(c) == c \in {" ", "\n"}
InList(c) == IsWord(c) \/ IsWhite(c) \/ c = ","

\* the flag i
LowerCase(c) == IF c = "Ensure" THEN "ensure" ELSE c

RECURSIVE WhiteEnd(_, _)
WhiteEnd(text, i) == IF i <= Len(text) /\ IsWhite(text[i]) THEN WhiteEnd(text, i + 1) ELSE i

RECURSIVE InListEnd(_, _)
InListEnd(text, i) == IF i <= Len(text) /\ InList(text[i]) THEN InListEnd(text, i + 1) ELSE i

\* (\w+)\s+implements\s+([\w,\s]+) with the word at position k: the struct
\* name, the capture and the position after it, or None.  When only white
\* space follows "implements", \s+ leaves its last character to the capture.
StructImplements(text, k) ==
    LET l == WhiteEnd(text, k + 1)
        m == WhiteEnd(text, l + 1)
        e == InListEnd(text, m)
    IN  IF k <= Len(text) /\ IsWord(text[k]) /\ l > k + 1 /\ l <= Len(text)
           /\ LowerCase(text[l]) = "implements" /\ m > l + 1
        THEN IF e > m THEN [struct |-> text[k], list |-> SubSeq(text, m, e - 1), end |-> e]
             ELSE IF m > l + 2 THEN [struct |-> text[k], list |-> <<text[m - 1]>>, end |-> m]
             ELSE None
        ELSE None

\* goplsService.ts:235, 236 and 238: the pattern n matched from position i
GoplsPatternAt(n, text, i) ==
    LET j == WhiteEnd(text, i + 1)
        k == WhiteEnd(text, j + 1)
        ensure == j <= Len(text) /\ LowerCase(text[j]) = "ensure" /\ k > j + 1
    IN  CASE n = 1 -> IF text[i] = "//" /\ ensure THEN StructImplements(text, k) ELSE None
          [] n = 2 -> IF text[i] = "/*" /\ ensure /\ StructImplements(text, k) # None
                         /\ StructImplements(text, k).end <= Len(text)
                         /\ text[StructImplements(text, k).end] = "*/"
                      THEN [StructImplements(text, k) EXCEPT !.end = @ + 1]
                      ELSE None
          [] OTHER -> IF text[i] = "//" THEN StructImplements(text, j) ELSE None

\* while ((match = pattern.exec(text)) !== null): the matches from position i on
RECURSIVE ExecAll(_, _, _)
ExecAll(n, text, i) ==
    IF i > Len(text) THEN <<>>
    ELSE LET match == GoplsPatternAt(n, text, i)
         IN  IF match = None THEN ExecAll(n, text, i + 1)
             ELSE <<match>> \o ExecAll(n, text, match.end)

RECURSIVE TrimWhiteRight(_)
TrimWhiteRight(s) ==
    IF s # <<>> /\ IsWhite(s[Len(s)]) THEN TrimWhiteRight(SubSeq(s, 1, Len(s) - 1)) ELSE s

\* String.prototype.trim
Trim(s) == TrimWhiteRight(SubSeq(s, WhiteEnd(s, 1), Len(s)))

\* interfacesPart.split(',').map(trim).filter(nonempty and /^[A-Za-z_]\w*$/)
RECURSIVE InterfacesOf(_)
InterfacesOf(parts) ==
    IF parts = <<>> THEN <<>>
    ELSE LET t == Trim(Head(parts))
         IN  (IF Len(t) = 1 /\ IsWord(t[1]) THEN <<t[1]>> ELSE <<>>) \o InterfacesOf(Tail(parts))

\* goplsService.ts:241-258, the matches of one pattern added to implementsMap
RECURSIVE WithMatches(_, _)
WithMatches(implementsMap, matches) ==
    IF matches = <<>> THEN implementsMap
    ELSE LET match == Head(matches)
             interfaces == InterfacesOf(Split(match.list))
             existing == MapGetOr(implementsMap, match.struct, <<>>)
         IN  WithMatches(IF Len(interfaces) > 0
                         THEN MapSet(implementsMap, match.struct, existing \o interfaces)
                         ELSE implementsMap,
                         Tail(matches))

\* parseImplementsComments(document) is entered
GoplsStarted(text) ==
    [pc |-> "patterns", pattern |-> 1, text |-> text, implementsMap |-> EmptyMap]

\* one turn of `for (const pattern of patterns)`
TryPattern ==
    /\ gopls.pc = "patterns"
    /\ gopls.pattern <= 3
    /\ gopls' = [gopls EXCEPT
                   !.pattern = @ + 1,
                   !.implementsMap = WithMatches(@, ExecAll(gopls.pattern, gopls.text, 1))]
    /\ UNCHANGED <<resolveVars, cacheVars, managerVars, extractor, manager, controller>>

\* return implementsMap
ReturnImplementsMap ==
    /\ gopls.pc = "patterns"
    /\ gopls.pattern > 3
    /\ gopls' = [gopls EXCEPT !.pc = "returned"]
    /\ UNCHANGED <<resolveVars, cacheVars, managerVars, extractor, manager, controller>>

\* the documents: what stands before the comment, the comment, what follows
CommentLines ==
    {<<"//", " ", e, " ", "S", " ", "implements", " ">> \o list :
        e \in {"ensure", "Ensure"},
        list \in {<<"I">>, <<"I", ",", "J">>, <<"I", ",", " ", "J">>, <<"I", ",">>}}
    \cup {<<"//", " ", "S", " ", "implements", " ", "I">>,
          <<"//", "ensure", " ", "S", " ", "implements", " ", "I">>,
          <<"/*", " ", "ensure", " ", "S", " ", "implements", " ", "I", " ", "*/">>,
          <<"/*", " ", "ensure", " ", "S", " ", "implements", " ", "I", ",", "J", "*/">>}

StructLine == <<"type", " ", "S", " ", "struct", " ", "{", "}">>

TextBefore == {<<>>, <<"type", " ", "I", " ", "interface", " ", "{", "}", "\n">>,
               <<"//", " ", "S", " ", "implements", " ", "J", ",", "\n">>}

TextAfter == {<<>>, <<"\n">> \o StructLine, <<"\n", "\n">> \o StructLine, <<"{">>}

GoplsDocuments == {b \o c \o a : b \in TextBefore, c \in CommentLines, a \in TextAfter}

InitGoplsComments ==
    /\ gopls \in {GoplsStarted(text) : text \in GoplsDocuments}
    /\ extractor = NotStarted
    /\ manager = NotStarted
    /\ controller = NotStarted
    /\ result = EmptyResult
    /\ ResolveIdle
    /\ CachesEmpty

NextGoplsComments == TryPattern \/ ReturnImplementsMap

SpecGoplsComments == InitGoplsComments /\ [][NextGoplsComments]_vars

----------------------------------------------------------------------------
(* ParserManager.selectParser (part_003).  manager holds the configured    *)
(* mode, currentMode, what the two isAvailable calls resolve to, and the   *)
(* await the call stands at; currentService is "unknown" while it is null. *)

\* bound on the number of selectParser calls of a behaviour
MaxSelects == 2

\* ijump.parserMode: the three modes and any other configured string
ConfiguredModes == {"auto", "parser", "gopls", "other"}

ManagerStarted(mode, parserAvailable, goplsAvailable) ==
    [pc |-> "idle", configMode |-> mode, currentMode |-> "auto",
     parserAvailable |-> parserAvailable, goplsAvailable |-> goplsAvailable, selects |-> 0]

\* selectParser up to its first await
SelectParser ==
    /\ manager.pc \in {"idle", "returned"}
    /\ manager.selects < MaxSelects
    /\ manager.pc = "returned" => manager.configMode # manager.currentMode
    /\ manager' = [manager EXCEPT
                     !.currentMode = manager.configMode,
                     !.selects = @ + 1,
                     !.pc = CASE manager.configMode = "gopls" -> "gopls first"
                              [] manager.configMode \in {"parser", "auto"} -> "parser"
                              [] OTHER -> "default"]
    /\ UNCHANGED <<resolveVars, cacheVars, managerVars, extractor, gopls, controller>>

\* gopls is asked in place of the parser
ParserIsAvailableGoplsFirst ==
    /\ manager.pc = "parser"
    /\ IF manager.goplsAvailable
       THEN currentService' = "gopls" /\ manager' = [manager EXCEPT !.pc = "returned"]
       ELSE manager' = [manager EXCEPT !.pc = "default"] /\ UNCHANGED currentService
    /\ UNCHANGED <<resolveVars, cacheVars, decorationCache, extractor, gopls, controller>>

\* await this.goAstParser.isAvailable() in the parser and auto modes
ParserIsAvailable ==
    /\ manager.pc = "parser"
    /\ IF manager.parserAvailable
       THEN currentService' = "parser" /\ manager' = [manager EXCEPT !.pc = "returned"]
       ELSE manager' = [manager EXCEPT !.pc = "gopls second"] /\ UNCHANGED currentService
    /\ UNCHANGED <<resolveVars, cacheVars, decorationCache, extractor, gopls, controller>>

\* await this.goplsService.isAvailable(), first in the gopls mode, after the
\* parser in the other two
GoplsIsAvailable ==
    /\ manager.pc \in {"gopls first", "gopls second"}
    /\ IF manager.goplsAvailable
       THEN currentService' = "gopls" /\ manager' = [manager EXCEPT !.pc = "returned"]
       ELSE manager' = [manager EXCEPT !.pc = "default"] /\ UNCHANGED currentService
    /\ UNCHANGED <<resolveVars, cacheVars, decorationCache, extractor, gopls, controller>>

\* the parser as the default
UseDefaultParser ==
    /\ manager.pc = "default"
    /\ currentService' = "parser"
    /\ manager' = [manager EXCEPT !.pc = "returned"]
    /\ UNCHANGED <<resolveVars, cacheVars, decorationCache, extractor, gopls, controller>>

\* the user sets ijump.parserMode; onConfigurationChanged calls selectParser
\* when the mode differs from currentMode
ChangeConfiguration(mode) ==
    /\ manager.pc = "returned"
    /\ manager.selects < MaxSelects
    /\ mode # manager.configMode
    /\ manager' = [manager EXCEPT !.configMode = mode]
    /\ UNCHANGED <<resolveVars, cacheVars, managerVars, extractor, gopls, controller>>

InitSelect ==
    /\ manager \in {ManagerStarted(mode, p, g) :
                       mode \in ConfiguredModes, p \in BOOLEAN, g \in BOOLEAN}
    /\ currentService = "unknown"
    /\ decorationCache = EmptyMap
    /\ extractor = NotStarted
    /\ gopls = NotStarted
    /\ controller = NotStarted
    /\ CacheStart([p \in {PathA} |-> "ok"])

NextSelect ==
    \/ SelectParser
    \/ ParserIsAvailable
    \/ GoplsIsAvailable
    \/ UseDefaultParser
    \/ \E mode \in ConfiguredModes : ChangeConfiguration(mode)

SpecSelect == InitSelect /\ [][NextSelect]_vars

----------------------------------------------------------------------------
(* GoAstParser.getAllDecorations around its await of parseGoFile: a call   *)
(* of parseGoFile returns, the rest of getAllDecorations runs on what it   *)
(* returned, and only then does another task run.                          *)

\* the symbol table that a result with a package stands for: File has the
\* method of Reader in every other version of the text
PrintedTable(ret) ==
    IF Len(ret.packages) = 0 THEN EmptyResult
    ELSE Package(<<Iface("Reader", <<"Read">>, FileA, 0)>>,
                 <<Struct("File", "int", "", <<>>, FileA, 10)>>,
                 IF ret.packages[1].text % 2 = 0
                 THEN <<Method("File", "Read", FALSE, FileA, 20)>>
                 ELSE <<>>)

\* const parseResult = await this.parseGoFile(...), and the test that follows
AwaitParseGoFile ==
    /\ pc = "idle"
    /\ hist.returned # None
    /\ caller' = "getAllDecorations"
    /\ result' = PrintedTable(hist.returned.ret)
    /\ IF Len(hist.returned.ret.packages) = 0
       THEN /\ pc' = "done"
            /\ UNCHANGED <<interfaceMethodsMap, structMethodsMap, structsMap>>
       ELSE /\ pc' = "explicit"
            /\ interfaceMethodsMap' = getInterfaceMethods(result')
            /\ structMethodsMap' = getImplementations(result')
            /\ structsMap' = getStructsInfo(result')
    /\ UNCHANGED <<doc, implementedInterfaces, interfaceImplementations,
                   hasNewImplementation, iterations, decorations, cacheVars, managerVars, otherVars>>

\* getAllDecorations has returned its four collections; the next call
\* starts with empty ones
GetAllDecorationsReturns ==
    /\ pc = "done"
    /\ result' = EmptyResult
    /\ caller' = "none"
    /\ doc' = NoDoc
    /\ pc' = "idle"
    /\ interfaceMethodsMap' = EmptyMap
    /\ structMethodsMap' = EmptyMap
    /\ structsMap' = EmptyOrderedMap
    /\ implementedInterfaces' = {}
    /\ interfaceImplementations' = EmptyMap
    /\ hasNewImplementation' = FALSE
    /\ iterations' = 0
    /\ decorations' = NoDecorations
    /\ hist' = NoReturn(hist)
    /\ UNCHANGED <<now, fsText, fileCache, fileCacheTimes, parseCache, cacheTimes,
                   packageCache, isParserReady, calls, managerVars, otherVars>>

\* a.go alone; every parseGoFile is the one getAllDecorations awaits
InitQuery ==
    /\ ManagerIdle
    /\ CacheStartWith([p \in {PathA} |-> "ok"], "query")
    /\ ResolveIdle
    /\ result = EmptyResult

NextQuery ==
    \/ pc = "idle" /\ hist.returned = None /\ NextCache
    \/ AwaitParseGoFile
    \/ Explicit
    \/ Direct
    \/ Embedding
    \/ EmbeddingExit
    \/ Pointer
    \/ Decorate
    \/ GetAllDecorationsReturns

SpecQuery == InitQuery /\ [][NextQuery]_vars

----------------------------------------------------------------------------
(* Vocabulary of the properties, read off the extractor's output (result)  *)
(* and not off the maps the passes work on.                                *)

\* method names declared with receiver type n, value and pointer receivers alike
OwnMethodNames(r, n) == {m.methodName : m \in {x \in Range(AllMethods(r)) : x.receiverType = n}}

RequiredNames(i) == Range(interfaceMethodsMap[i])

TypeNames(r) == ReceiverNames(r) \cup {s.name : s \in Range(AllStructs(r))}

\* interface names some structsMap entry asserts through implementsInterfaces
AssertedNames(sm) ==
    UNION {Range(sm.info[s].implementsInterfaces) :
             s \in {s2 \in DOMAIN sm.info : "implementsInterfaces" \in DOMAIN sm.info[s2]}}

\* the types of the fields of n that the extractor marked as embedded
EmbeddedOf(sm, n) ==
    IF n \in DOMAIN sm.info /\ "fields" \in DOMAIN sm.info[n]
    THEN {sm.info[n].fields[f].type :
            f \in {g \in DOMAIN sm.info[n].fields : sm.info[n].fields[g].embedded = TRUE}}
    ELSE {}

\* structs reachable from n along at most k embedded fields
RECURSIVE ReachWithin(_, _, _)
ReachWithin(sm, n, k) ==
    IF k = 0 THEN {n}
    ELSE {n} \cup UNION {ReachWithin(sm, t, k - 1) : t \in EmbeddedOf(sm, n)}

\* merged method set: own methods and, transitively, what embedded field types
\* contribute (a struct its merged set, an interface its required names)
MergedMethodSet(r, sm, n) ==
    OwnMethodNames(r, n) \cup
    UNION {OwnMethodNames(r, t) \cup
             (IF t \in DOMAIN interfaceMethodsMap THEN RequiredNames(t) ELSE {}) :
           t \in UNION {ReachWithin(sm, e, Cardinality(DOMAIN sm.info)) : e \in EmbeddedOf(sm, n)}}

Returned == pc \in {"decorate", "done"} /\ caller # "none" /\ result.packages # <<>>
AfterDirectPass == pc = "embedding" /\ iterations = 0

----------------------------------------------------------------------------
(* C1: a Direct step records (I, S) only if every required method name of  *)
(* I is among the method names declared for S; a struct with 4 of 5, or    *)
(* any other proper subset, is not recorded by that step.                  *)
C1_DirectAllOrNothing ==
    [][pc = "direct" =>
         \A i \in DOMAIN interfaceImplementations' :
            \A s \in interfaceImplementations'[i] :
               ~Has(locals, i, s) =>
                  /\ Len(interfaceMethodsMap[i]) > 0
                  /\ RequiredNames(i) \subseteq OwnMethodNames(result, s)]_vars

C1_Witness ==
    /\ AfterDirectPass
    /\ "Five" \in DOMAIN interfaceMethodsMap
    /\ Cardinality(OwnMethodNames(result, "Part")) = 4
    /\ ~Has(locals, "Five", "Part")

(* C2 as stated: after all passes, every recorded (I, S) has all required  *)
(* names of I in the merged method set of S.                               *)
C2_Original ==
    Returned =>
        \A i \in DOMAIN interfaceImplementations :
           \A s \in interfaceImplementations[i] :
              RequiredNames(i) \subseteq MergedMethodSet(result, structsMap, s)

(* C2: after all passes, for every interface I that no structsMap entry    *)
(* asserts through implementsInterfaces, every struct recorded for I has   *)
(* all required names of I in its merged method set.                       *)
C2_NoFalsePositive ==
    Returned =>
        \A i \in DOMAIN interfaceImplementations :
           i \notin AssertedNames(structsMap) =>
              \A s \in interfaceImplementations[i] :
                 RequiredNames(i) \subseteq MergedMethodSet(result, structsMap, s)

\* a struct recorded through an embedded field, without the method itself
C2_Witness ==
    /\ Returned
    /\ AssertedNames(structsMap) = {}
    /\ Has(locals, "Reader", "File")
    /\ "Read" \notin OwnMethodNames(result, "File")

(* C3: in the run of getAllDecorations, a struct whose declaration carries *)
(* an "ensure S implements I" annotation for a declared interface I is     *)
(* recorded for I, and I is among the implemented interfaces.              *)
C3_ExplicitWins ==
    (Returned /\ caller = "getAllDecorations") =>
        \A s \in Range(AllStructs(result)) :
           \A i \in Range(s.implementsInterfaces) :
              i \in DOMAIN interfaceMethodsMap =>
                 Has(locals, i, s.name) /\ i \in implementedInterfaces

(* C4: one level of embedding propagates: when a struct B declares every   *)
(* required method of a non-empty interface I that no annotation asserts,  *)
(* every struct with an embedded field of type B is recorded for I at the  *)
(* end of checkInterfaceImplementations, whatever it declares itself.      *)
C4_OneLevelEmbedding ==
    Returned =>
        \A i \in DOMAIN interfaceMethodsMap :
           (Len(interfaceMethodsMap[i]) > 0 /\ i \notin AssertedNames(structsMap)) =>
              \A s \in DOMAIN structsMap.info :
                 \A b \in EmbeddedOf(structsMap, s) :
                    RequiredNames(i) \subseteq OwnMethodNames(result, b) => Has(locals, i, s)

\* Base has Read, File embeds Base and declares nothing, Reader requires Read
C4_Witness ==
    /\ Returned
    /\ "Reader" \in DOMAIN interfaceMethodsMap
    /\ interfaceMethodsMap["Reader"] = <<"Read">>
    /\ "Read" \in OwnMethodNames(result, "Base")
    /\ EmbeddedOf(structsMap, "File") = {"Base"}
    /\ OwnMethodNames(result, "File") = {}
    /\ Has(locals, "Reader", "File")

(* C5: an embedding chain of depth at most 5 resolves in every order of    *)
(* structsMap: a struct from which a struct declaring every required       *)
(* method of I is reachable along at most 5 embedded fields is recorded    *)
(* for I when the embedding loop has ended.                                *)
C5_ChainWithinBound ==
    (pc \in {"pointer", "decorate", "done"} /\ result.packages # <<>>) =>
        \A i \in DOMAIN interfaceMethodsMap :
           (Len(interfaceMethodsMap[i]) > 0 /\ i \notin AssertedNames(structsMap)) =>
              \A s \in DOMAIN structsMap.info :
                 (\E b \in ReachWithin(structsMap, s, 5) :
                     RequiredNames(i) \subseteq OwnMethodNames(result, b)) => Has(locals, i, s)

\* the chain S5 > ... > S1 > Base listed outermost first: five iterations
C5_Witness ==
    /\ pc = "pointer"
    /\ caller = "getAllDecorations"
    /\ Len(structsMap.order) = 6
    /\ \A k \in 1..5 : structsMap.order[k] = ChainName(6 - k)
    /\ structsMap.order[6] = "Base"
    /\ iterations = 5
    /\ \A k \in 1..5 : Has(locals, "Reader", ChainName(k))

(* C6: the embedding loop runs at most 5 iterations, cycles of embedded    *)
(* fields included, and an iteration is run only as the first one or after *)
(* an iteration that recorded a new (interface, struct) pair; the flag     *)
(* that continues the loop is set exactly when a pair was recorded.        *)
C6_EmbeddingTerminates ==
    /\ [](iterations <= 5)
    /\ [][(pc = "embedding" /\ iterations' = iterations + 1) =>
            /\ iterations = 0 \/ hasNewImplementation
            /\ hasNewImplementation' <=>
                  (interfaceImplementations' # interfaceImplementations)]_vars

\* Base and File embed each other; the loop has stopped after an iteration
\* that recorded nothing
C6_Witness ==
    /\ pc = "pointer"
    /\ "File" \in EmbeddedOf(structsMap, "Base")
    /\ "Base" \in EmbeddedOf(structsMap, "File")
    /\ Has(locals, "Reader", "File")
    /\ Has(locals, "Reader", "Base")
    /\ iterations = 2
    /\ ~hasNewImplementation

C8_OnlyParticipatingMethods ==
    (pc = "done" /\ caller = "getAllDecorations" /\ result.packages # <<>>) =>
        \A m \in Range(AllMethods(result)) :
           m.filePath = doc =>
              (Decoration(m.line, "implementation", m.methodName)
                    \in decorations.implementationDecorations
               <=> \E i \in implementedInterfaces :
                      /\ RequiredNames(i) \subseteq OwnMethodNames(result, m.receiverType)
                      /\ m.methodName \in RequiredNames(i))

\* Reader requires Read; File has Read in b.go and Write in a.go: with b.go
\* open, File.Read and the struct File are the implementation decorations
C8_Witness ==
    /\ pc = "done" /\ caller = "getAllDecorations" /\ doc = FileB
    /\ DOMAIN interfaceMethodsMap = {"Reader"}
    /\ interfaceMethodsMap["Reader"] = <<"Read">>
    /\ OwnMethodNames(result, "File") = {"Read", "Write"}
    /\ OwnMethodNames(result, "Base") = {}
    /\ implementedInterfaces = {"Reader"}
    /\ interfaceImplementations["Reader"] = {"File"}
    /\ decorations.implementationDecorations =
          {Decoration(20, "implementation", "Read"), Decoration(10, "implementation", "File")}

----------------------------------------------------------------------------
(* Properties of parseGoFile and clearCache, checked under SpecCache.      *)

\* what the step just taken returned from parseGoFile
LastReturn == hist.returned
HasReturned == hist.returned # None

\* the call ran neither await: it was answered from one of the two caches
FromCache(r) == r.via \in {"file", "package"}
\* the call started the extractor process
RanExtractor(r) == r.via \in {"parsed", "failed"}

\* the call follows a returned call for the same path, with no file change
\* in the directory and no clearCache since that call started
Follows(r) == r.prev # None

Without(m, k) == [x \in DOMAIN m \ {k} |-> m[x]]

\* the step just taken was clearCache(p) / clearCache()
JustCleared(p) == hist.op = [clearCache |-> p]
JustClearedAll == hist.op = [clearCache |-> "all"]

\* C11: a clearCache(path) step removes the file-level result and timestamp
\* of path and the package-level result and timestamp of path's directory
\* and changes no other entry of the four maps; a clearCache() step leaves
\* the four maps empty.
C11_ClearCacheFrame ==
    [][/\ \A p \in Paths :
            JustCleared(p)' =>
               /\ fileCache' = Without(fileCache, p)
               /\ fileCacheTimes' = Without(fileCacheTimes, p)
               /\ parseCache' = Without(parseCache, getPackagePath(p))
               /\ cacheTimes' = Without(cacheTimes, getPackagePath(p))
       /\ JustClearedAll' =>
               /\ fileCache' = EmptyMap /\ fileCacheTimes' = EmptyMap
               /\ parseCache' = EmptyMap /\ cacheTimes' = EmptyMap]_vars

\* clearCache(a.go) has just run: the entries of a.go and of /p are gone, the
\* entries of c.go and of /q are still there
C11_Witness ==
    /\ JustCleared(PathA)
    /\ PathA \notin DOMAIN fileCache /\ "/p" \notin DOMAIN parseCache
    /\ PathC \in DOMAIN fileCache /\ PathC \in DOMAIN fileCacheTimes
    /\ "/q" \in DOMAIN parseCache /\ "/q" \in DOMAIN cacheTimes
    /\ hist.started = 2

\* the call started right after clearCache(q) for a sibling q that had just
\* been deleted: q, which was there at the start, is gone, the clearCache
\* came after the last change of the directory and with no call in flight
AfterSiblingDeleted(r) ==
    /\ r.sibling # None
    /\ r.sibling.path \in ChangedPaths
    /\ fsText.kind[r.sibling.path] = "absent"
    /\ r.sibling.floor = fsText.version[getPackagePath(r.path)]

\* C12: after a file of the directory was deleted and the watcher called
\* clearCache on its path, the next parseGoFile for another file of the
\* directory is not answered from a cache and returns the packages of the
\* directory as it is after the deletion.
C12_SiblingChangeSeen ==
    HasReturned /\ AfterSiblingDeleted(LastReturn)
        => /\ ~FromCache(LastReturn)
           /\ Len(LastReturn.ret.packages) > 0
                => LastReturn.ret.packages[1].text >= LastReturn.sibling.floor

\* the version of the text a returned value was computed from, -1 for the
\* empty value
TextOf(ret) ==
    IF "decorations" \in DOMAIN ret THEN ret.decorations
    ELSE IF Len(ret.packages) > 0 THEN ret.packages[1].text ELSE -1

\* the call was issued by the save handler
IssuedBySave(r) == r.save # None

\* C13: the getAllDecorations call that the save handler issues through
\* ParserManager returns a value computed from the saved text (or the empty
\* value), whichever service is the current one.
C13_SaveSeen ==
    HasReturned /\ IssuedBySave(LastReturn)
        => \/ TextOf(LastReturn.ret) = -1
           \/ TextOf(LastReturn.ret) >= LastReturn.save.version

\* how long before the start of the returning call the extractor run that
\* produced its result started
AgeOfResult(r) == r.call.now - r.ret.run

\* C14: a result returned from the file-level cache was produced by an
\* extractor run that started less than 30 000 ms before the call, one
\* returned from the package-level cache by a run that started less than
\* 300 000 ms before it.
C14_FreshPerGranularity ==
    HasReturned /\ FromCache(LastReturn) =>
        /\ LastReturn.via = "file" => AgeOfResult(LastReturn) < fileCacheTimeToLive
        /\ LastReturn.via = "package" => AgeOfResult(LastReturn) < cacheTimeToLive

\* the call missed both caches
MissedBoth(r) == ~FromCache(r)

\* both levels hold the returned result of r, stamped with the time r took
\* at its start
StoredAtBoth(r) ==
    /\ r.path \in DOMAIN fileCache /\ fileCache[r.path] = r.ret
    /\ r.path \in DOMAIN fileCacheTimes /\ fileCacheTimes[r.path] = r.call.now
    /\ getPackagePath(r.path) \in DOMAIN parseCache
    /\ parseCache[getPackagePath(r.path)] = r.ret
    /\ getPackagePath(r.path) \in DOMAIN cacheTimes
    /\ cacheTimes[getPackagePath(r.path)] = r.call.now

\* C15, as the claim states it: when a call that missed both caches
\* returns, both levels hold the returned result.
C15_Original ==
    HasReturned /\ MissedBoth(LastReturn) => StoredAtBoth(LastReturn)

\* C15: when a call that missed both caches returns the extractor's output
\* and that output has at least one package, fileCache[path] and
\* parseCache[dirname(path)] both hold the returned result, stamped with the
\* time the call took at its start.
C15_StoredWhenPackages ==
    HasReturned /\ LastReturn.via = "parsed" /\ Len(LastReturn.ret.packages) > 0
        => StoredAtBoth(LastReturn)

C15_Witness ==
    /\ HasReturned /\ LastReturn.via = "parsed"
    /\ Len(LastReturn.ret.packages) > 0
    /\ now > LastReturn.call.now
    /\ StoredAtBoth(LastReturn)

\* r is the later to complete of two overlapping calls for one path that
\* both ran the extractor
CompletedLast(r) == RanExtractor(r) /\ r.overtaken # None

\* the entries of r's path and directory hold r's result
EntriesHold(r) ==
    /\ r.path \in DOMAIN fileCache /\ fileCache[r.path] = r.ret
    /\ getPackagePath(r.path) \in DOMAIN parseCache
    /\ parseCache[getPackagePath(r.path)] = r.ret

\* C16, as the claim states it: when the later of two overlapping calls for
\* one path that both ran the extractor completes, the file-level and the
\* package-level entry hold its result.
C16_Original ==
    HasReturned /\ CompletedLast(LastReturn) => EntriesHold(LastReturn)

\* C16: when the later of two overlapping calls for one path that both ran
\* the extractor completes with a result of at least one package, the
\* file-level and the package-level entry hold its result, whichever of the
\* two was issued first.
C16_LastWriterWins ==
    HasReturned /\ CompletedLast(LastReturn) /\ Len(LastReturn.ret.packages) > 0
        => EntriesHold(LastReturn)

\* the call issued first completes last, with a result other than the one
\* the other call wrote
C16_Witness ==
    /\ HasReturned /\ CompletedLast(LastReturn)
    /\ Len(LastReturn.ret.packages) > 0
    /\ LastReturn.call.id < LastReturn.overtaken.id
    /\ LastReturn.call.now < now
    /\ EntriesHold(LastReturn)

\* each result map has the keys of its map of times
KeySetsAgree ==
    /\ DOMAIN fileCache = DOMAIN fileCacheTimes
    /\ DOMAIN parseCache = DOMAIN cacheTimes

\* the call gave up before the cache update: the parser was not ready, the
\* file was missing, or the extractor failed
Abandoned(r) == r.via \in {"notready", "nofile", "failed"}

\* C17: in every state between two tasks fileCache and fileCacheTimes have
\* the same keys and parseCache and cacheTimes have the same keys, and the
\* step in which a call returns after giving up or failing changes none of
\* the four maps.
C17_ConsistentWrites ==
    /\ []KeySetsAgree
    /\ [][HasReturned' /\ Abandoned(LastReturn') =>
            UNCHANGED <<fileCache, fileCacheTimes, parseCache, cacheTimes>>]_vars

\* a call fails after an overlapping call wrote its entries, and the
\* entries stand
C17_Witness ==
    /\ HasReturned /\ LastReturn.via = "failed"
    /\ LastReturn.overtaken # None
    /\ LastReturn.path \in DOMAIN fileCache
    /\ KeySetsAgree

\* the call is the first for its path to start after the calls that were in
\* flight at a clearCache of the path have all returned
AfterMidwayClear(r) == r.midway # None

\* C18: when clearCache(path) is called while a parseGoFile(path) call is in
\* flight, the next parseGoFile(path) to start after that call has returned
\* returns either no package or the packages of a text at least as new as
\* the text at the clearCache.
C18_InvalidationStands ==
    HasReturned /\ AfterMidwayClear(LastReturn) /\ Len(LastReturn.ret.packages) > 0
        => LastReturn.ret.packages[1].text >= LastReturn.midway.floor

\* getAllDecorations has run to its return on what the call returned
QueryAnswered == HasReturned /\ caller = "getAllDecorations" /\ pc = "done"

\* C19: a parseGoFile call that gives up (parser not ready, file missing,
\* extractor failure or output without a packages member) returns the
\* empty result, and getAllDecorations run on a result without packages
\* returns empty decoration lists and empty line maps.
C19_NoFailureCrosses ==
    /\ HasReturned /\ Abandoned(LastReturn) => LastReturn.ret = EmptyResult
    /\ QueryAnswered /\ Len(LastReturn.ret.packages) = 0 => decorations = NoDecorations

\* the extractor failed after the file had been parsed once, and
\* getAllDecorations returned nothing
C19_Witness ==
    /\ QueryAnswered
    /\ LastReturn.via = "failed"
    /\ LastReturn.path \in DOMAIN fileCacheTimes
    /\ decorations = NoDecorations

\* while (hasNewImplementation && iterations < maxIterations), from
\* iteration k on
RECURSIVE EmbeddingLoop(_, _, _)
EmbeddingLoop(s0, sm, k) ==
    IF k >= maxIterations THEN s0
    ELSE LET s == EmbedIteration(s0, sm.order, sm)
         IN IF s = s0 THEN s0 ELSE EmbeddingLoop(s, sm, k + 1)

\* the four passes of checkInterfaceImplementations, one after the other
checkInterfaceImplementations(imm, smm, sm, names) ==
    PointerPass(
        EmbeddingLoop(
            DirectPass(ExplicitPass([ii |-> {}, impl |-> EmptyMap], imm, sm), imm, smm),
            sm, 0),
        imm, smm, names)

\* the relation computed for the table of the run with the
\* implementsInterfaces lists left out of structsMap
RelationWithoutAssertions ==
    checkInterfaceImplementations(interfaceMethodsMap, structMethodsMap,
                                  getStructsInfo(result), ReceiverNames(result)).impl

\* checkInterfaceImplementations has returned from a call with a structsMap
\* that carries implementsInterfaces lists
AnnotatedRunDone == caller = "direct" /\ pc = "done"

\* C20: the relation that checkInterfaceImplementations computes with the
\* explicit annotations contains every pair of the relation it computes
\* for the same table without them.
C20_AssertionsOnlyAdd ==
    AnnotatedRunDone =>
        \A i \in DOMAIN RelationWithoutAssertions :
            /\ i \in DOMAIN interfaceImplementations
            /\ RelationWithoutAssertions[i] \subseteq interfaceImplementations[i]

\* the method names declared for n and for the types of its embedded fields
OwnAndEmbeddedNames(r, sm, n) ==
    OwnMethodNames(r, n) \cup UNION {OwnMethodNames(r, b) : b \in EmbeddedOf(sm, n)}

\* C21: at the end of checkInterfaceImplementations, a struct is recorded
\* for every non-empty interface, asserted by no annotation, whose required
\* names are all among the struct's own methods and the methods of the
\* types of its embedded fields.
C21_MethodSetIsUnion ==
    Returned =>
        \A i \in DOMAIN interfaceMethodsMap :
           (Len(interfaceMethodsMap[i]) > 0 /\ i \notin AssertedNames(structsMap)) =>
              \A s \in DOMAIN structsMap.info :
                 RequiredNames(i) \subseteq OwnAndEmbeddedNames(result, structsMap, s)
                    => Has(locals, i, s)

\* C22: at the end of checkInterfaceImplementations, a struct with an
\* embedded field whose type name is the name of a declared interface is
\* recorded for that interface.
C22_EmbeddedInterfacePropagates ==
    Returned =>
        \A i \in DOMAIN interfaceMethodsMap :
           \A s \in DOMAIN structsMap.info :
              i \in EmbeddedOf(structsMap, s) => Has(locals, i, s)

\* the types of the embedded fields of every declaration of the struct n
DeclaredEmbedded(r, n) ==
    UNION {{s.fields[f].type : f \in {g \in DOMAIN s.fields : s.fields[g].embedded}} :
             s \in {d \in Range(AllStructs(r)) : d.name = n}}

\* C23: at the end of checkInterfaceImplementations, when a type B declares
\* every required method of a non-empty interface I that no annotation
\* asserts, every struct name one of whose declarations has an embedded
\* field of type B is recorded for I.
C23_DuplicateDeclarationsUnioned ==
    Returned =>
        \A i \in DOMAIN interfaceMethodsMap :
           (Len(interfaceMethodsMap[i]) > 0 /\ i \notin AssertedNames(structsMap)) =>
              \A n \in {d.name : d \in Range(AllStructs(result))} :
                 \A b \in DeclaredEmbedded(result, n) :
                    RequiredNames(i) \subseteq OwnMethodNames(result, b) => Has(locals, i, n)

----------------------------------------------------------------------------
(* The extractor's run, read off its tree and what it listed and printed.  *)

Exited == extractor.pc = "exit"

\* the files of the directory of the argument that ParseFile accepts
ParseableFiles(e, dir) == {i \in DOMAIN e.tree[dir] : e.tree[dir][i].parses}

\* the declarations printed for a directory
PrintedFor(e, dir) ==
    IF dir \in DOMAIN e.stdout.packages
    THEN Len(e.stdout.packages[dir].interfaces) + Len(e.stdout.packages[dir].structs)
         + Len(e.stdout.packages[dir].methods)
    ELSE 0

\* the parent directory was listed after the directory of the argument
ParentScanned(e) == Len(e.listed) > 1

\* only the directory of the argument and then its parent are listed, each once
ListsAtMostParent(e) ==
    /\ Len(e.listed) <= 2
    /\ Len(e.listed) >= 1 => e.listed[1] = e.dirPath
    /\ Len(e.listed) = 2 => e.listed[2] = ParentDir(e.dirPath) /\ e.listed[2] # e.dirPath

(* C24 as stated: the run scans the parent directory if and only if the     *)
(* directory of the argument yielded no interface, struct or method; it    *)
(* scans the parent at most once and nothing above it.                     *)
C24_Original ==
    Exited => /\ ParentScanned(extractor) <=> PrintedFor(extractor, extractor.dirPath) = 0
              /\ ListsAtMostParent(extractor)

(* C24: the run scans the parent directory if and only if no Go file of    *)
(* the directory of the argument could be parsed (a file that parses and   *)
(* declares nothing suppresses the fallback) and that directory is not the *)
(* root; it scans the parent at most once and nothing above it.            *)
C24_FallbackIffNoPackage ==
    /\ extractor.pc # "main" => ListsAtMostParent(extractor)
    /\ Exited => (ParentScanned(extractor)
                    <=> /\ ParseableFiles(extractor, extractor.dirPath) = {}
                        /\ extractor.dirPath # DirRoot)

\* the parent was scanned and yielded nothing, and the root above it, which
\* has declarations, was left alone
C24_Witness ==
    /\ Exited
    /\ extractor.listed = <<DirD, DirW>>
    /\ extractor.tree[DirRoot] # <<>>
    /\ extractor.tree[DirD] # <<>>
    /\ extractor.stdout.packages = EmptyMap

\* the declarations of the files of a directory that parse, as kind, name, file
DeclaredIn(e, dir) ==
    UNION {{[kind |-> e.tree[dir][i].Decls[j].decl, name |-> e.tree[dir][i].Decls[j].Name,
             filePath |-> e.tree[dir][i].path] : j \in DOMAIN e.tree[dir][i].Decls} :
           i \in ParseableFiles(e, dir)}

\* the declarations of the printed result
PrintedDeclarations(e) ==
    UNION {{[kind |-> "interface", name |-> x.name, filePath |-> x.filePath] :
               x \in Range(e.stdout.packages[p].interfaces)}
           \cup {[kind |-> "struct", name |-> x.name, filePath |-> x.filePath] :
               x \in Range(e.stdout.packages[p].structs)}
           \cup {[kind |-> "func", name |-> x.methodName, filePath |-> x.filePath] :
               x \in Range(e.stdout.packages[p].methods)} :
           p \in DOMAIN e.stdout.packages}

PrintedCount(e) ==
    LET RECURSIVE Sum(_)
        Sum(ps) == IF ps = {} THEN 0
                   ELSE LET p == CHOOSE x \in ps : TRUE IN PrintedFor(e, p) + Sum(ps \ {p})
    IN  Sum(DOMAIN e.stdout.packages)

\* the run printed the declarations of the parseable files of dir, each once
PrintsExactly(e, dir) ==
    /\ e.exit = 0
    /\ PrintedDeclarations(e) = DeclaredIn(e, dir)
    /\ PrintedCount(e) = Cardinality(DeclaredIn(e, dir))

(* C25 as stated: whatever subset of the files of the directory fails to   *)
(* parse, the run ends without error and prints exactly the declarations   *)
(* of the parseable files of that directory.                               *)
C25_Original == Exited => PrintsExactly(extractor, extractor.dirPath)

(* C25: a file that fails to parse does not end the scan: the run ends     *)
(* without error, and when at least one file of the directory parses (or   *)
(* the directory is the root) it prints exactly the declarations of the    *)
(* parseable files of the directory, wherever the failing files stand in   *)
(* the order; when no file of it parses, it prints exactly those of the    *)
(* parseable files of the parent directory.                                *)
C25_FailingFileSkipped ==
    Exited =>
        PrintsExactly(extractor,
                      IF ParseableFiles(extractor, extractor.dirPath) # {}
                      THEN extractor.dirPath
                      ELSE ParentDir(extractor.dirPath))

\* a file that failed stands before a file with declarations, which are printed
C25_Witness ==
    /\ Exited
    /\ extractor.dirPath = DirD
    /\ Len(extractor.tree[DirD]) = 2
    /\ ~extractor.tree[DirD][1].parses
    /\ extractor.failed = {extractor.tree[DirD][1].path}
    /\ DeclaredIn(extractor, DirD) # {}
    /\ PrintedDeclarations(extractor) = DeclaredIn(extractor, DirD)

\* the type names of the unnamed entries of a declaration that have one, in order
EmbeddedEntryNames(d) ==
    LET RECURSIVE From(_)
        From(i) == IF i > Len(d.List) THEN <<>>
                   ELSE (IF Len(d.List[i].Names) = 0 /\ getTypeNameFromExpr(d.List[i].Type).name # ""
                         THEN <<getTypeNameFromExpr(d.List[i].Type).name>> ELSE <<>>)
                        \o From(i + 1)
    IN  From(1)

\* the interface declarations of the directory of the argument with what was
\* printed for them: the run is over and the directory has one file
ExtractedInterfaces(e) ==
    IF e.pc = "exit" /\ Len(e.tree[e.dirPath]) = 1 /\ e.tree[e.dirPath][1].parses
    THEN LET decls == e.tree[e.dirPath][1].Decls
             ifaces == SelectSeq(decls, LAMBDA d : d.decl = "interface")
         IN  {[decl |-> ifaces[i], info |-> e.stdout.packages[e.dirPath].interfaces[i]] :
                 i \in DOMAIN ifaces}
    ELSE {}

(* C26 as stated: of several unnamed entries of an interface declaration   *)
(* the extractor records the first as internalType and ignores the others. *)
C26_Original ==
    \A x \in ExtractedInterfaces(extractor) :
        Len(EmbeddedEntryNames(x.decl)) >= 2 =>
            x.info.internalType = EmbeddedEntryNames(x.decl)[1]

(* C26: of the unnamed entries of an interface declaration whose type has  *)
(* a name the extractor records the last as internalType, each one         *)
(* replacing the one before it; with no such entry internalType is empty.  *)
C26_LastEmbeddedKept ==
    \A x \in ExtractedInterfaces(extractor) :
        LET names == EmbeddedEntryNames(x.decl)
        IN  x.info.internalType = IF names = <<>> THEN "" ELSE names[Len(names)]

\* an interface with two different embedded entries was extracted
C26_Witness ==
    \E x \in ExtractedInterfaces(extractor) :
        /\ Len(EmbeddedEntryNames(x.decl)) >= 2
        /\ EmbeddedEntryNames(x.decl)[1] # EmbeddedEntryNames(x.decl)[Len(EmbeddedEntryNames(x.decl))]
        /\ x.info.internalType = "io.Writer"

\* s begins with the pieces of head, whatever the case
BeginsWith(s, head) ==
    Len(s) >= Len(head) /\ \A i \in DOMAIN head : Fold(s[i]) = Fold(head[i])

\* the names a comment asserts for a struct: the identifier-shaped tokens of
\* the comma-separated list after "[ensure] S implements ", or the interface
\* of "var _ I = (*S)(nil)"
AssertedIn(comment, structName) ==
    LET body == CommentBody(comment)
        long == <<"ensure", " ", structName, " ", "implements", " ">>
        short == <<structName, " ", "implements", " ">>
    IN  IF BeginsWith(body, long)
        THEN ValidNames(Split(SubSeq(body, Len(long) + 1, Len(body))))
        ELSE IF BeginsWith(body, short)
        THEN ValidNames(Split(SubSeq(body, Len(short) + 1, Len(body))))
        ELSE IF Len(body) = 11 /\ SubSeq(body, 1, 4) = <<"var", " ", "_", " ">>
                /\ SubSeq(body, 6, 11) = <<" ", "=", " ", "(*", structName, ")(nil)">>
                /\ isValidIdentifier(<<body[5]>>)
        THEN <<body[5]>>
        ELSE <<>>

RECURSIVE AssertedInAll(_, _)
AssertedInAll(list, structName) ==
    IF list = <<>> THEN <<>>
    ELSE AssertedIn(Head(list), structName) \o AssertedInAll(Tail(list), structName)

\* the struct declarations of the one file of the directory that carry one
\* comment group, with what was printed for them
ExtractedStructs(e) ==
    IF e.pc = "exit" /\ Len(e.tree[e.dirPath]) = 1 /\ e.tree[e.dirPath][1].parses
    THEN LET decls == e.tree[e.dirPath][1].Decls
             structs == SelectSeq(decls, LAMBDA d : d.decl = "struct")
         IN  {[decl |-> structs[i], info |-> e.stdout.packages[e.dirPath].structs[i],
               group |-> IF structs[i].DeclDoc = nil THEN structs[i].Doc ELSE structs[i].DeclDoc] :
                 i \in {j \in DOMAIN structs : structs[j].DeclDoc = nil \/ structs[j].Doc = nil}}
    ELSE {}

(* C27: the names the extractor returns for a struct and its comment group *)
(* are the concatenation, over the comments of the group in order, of the  *)
(* identifier-shaped names each comment asserts for the struct: a token of *)
(* a list that is not identifier-shaped is dropped alone, and a later      *)
(* comment adds to the names of an earlier one.                            *)
C27_AnnotationsAccumulate ==
    \A x \in ExtractedStructs(extractor) :
        x.group # nil =>
            x.info.implementsInterfaces = AssertedInAll(x.group.List, x.decl.Name)

\* the call that returned started after a document other than the active one
\* was saved in its directory, and is the first to start after that save
NextAfterOtherSave(r) ==
    /\ hist.saved # None
    /\ hist.saved.path # ActiveDocument
    /\ getPackagePath(r.path) = getPackagePath(hist.saved.path)
    /\ r.call.id = hist.saved.started + 1

(* C28: after a file of directory D other than the active editor's         *)
(* document is saved, the next parseGoFile for a file of D returns a       *)
(* result made from the saved text (or the empty result), not the result   *)
(* cached before the save.                                                 *)
C28_SaveOfSiblingRebuilds ==
    HasReturned /\ NextAfterOtherSave(LastReturn)
        => \/ TextOf(LastReturn.ret) = -1
           \/ TextOf(LastReturn.ret) >= hist.saved.version

\* the document has the line comment `// ensure S implements I` on the line
\* directly above `type S struct {`
EnsureAboveStruct(text) ==
    \E i \in DOMAIN text :
        /\ i + 17 <= Len(text)
        /\ SubSeq(text, i, i + 17) = <<"//", " ", "ensure", " ", "S", " ", "implements", " ", "I",
                                       "\n", "type", " ", "S", " ", "struct", " ", "{", "}">>

(* C29: for a document in which the line comment `// ensure S implements I` *)
(* stands on the line directly above `type S struct {`, the map that       *)
(* parseImplementsComments returns associates S with I.                    *)
C29_EnsureAboveStructRecognised ==
    (gopls.pc = "returned" /\ EnsureAboveStruct(gopls.text))
        => /\ "S" \in DOMAIN gopls.implementsMap
           /\ "I" \in Range(gopls.implementsMap["S"])

\* the service the claim names for a mode and the two availabilities
ServiceFor(mode, parserAvailable, goplsAvailable) ==
    IF \/ mode = "gopls" /\ goplsAvailable
       \/ mode \in {"parser", "auto"} /\ ~parserAvailable /\ goplsAvailable
    THEN "gopls"
    ELSE "parser"

(* C30: when selectParser has returned, currentService is not null; it is  *)
(* the gopls service exactly when the mode is gopls and gopls is           *)
(* available, or the mode is parser or auto, the parser is unavailable and *)
(* gopls is available; in every other case it is the Go AST parser.        *)
C30_SelectionIsTotal ==
    manager.pc = "returned" =>
        /\ currentService # "unknown"
        /\ currentService = ServiceFor(manager.currentMode, manager.parserAvailable,
                                       manager.goplsAvailable)

\* a second selection, made in the auto mode with the parser unavailable,
\* fell back to gopls
C30_Witness ==
    /\ manager.pc = "returned"
    /\ manager.selects = 2
    /\ manager.currentMode = "auto"
    /\ ~manager.parserAvailable
    /\ currentService = "gopls"

----------------------------------------------------------------------------
(* The decoration controller: throttleUpdateDecorations (part_001 556-568,
   1139-1151).  The runtime keeps the set of pending timers; the controller
   keeps the handle of the one it set last.  Time is counted in milliseconds;
   a timer runs when it is due, and a request that arrives at the very
   millisecond a timer is due is handled after that timer. *)

MaxRequests == 3
EditorA == "a.go"
EditorB == "b.go"
Editors == {EditorA, EditorB}

\* private throttleDelay: 100 in the parser controller, 200 in the gopls one
ThrottleDelays == {100, 200}

\* the time between two requests
Gaps(delay) == {1, delay - 1, delay, delay + 1}

ThrottleStarted(delay) ==
    [pc |-> "throttle", throttleDelay |-> delay, updateThrottleTimer |-> None,
     timers |-> {}, requests |-> <<>>, updates |-> <<>>]

\* clearTimeout left out
KeepTimeout(timers, handle) == timers

\* clearTimeout(handle)
ClearTimeout(timers, handle) == {t \in timers : t.id # handle.id}

\* setTimeout(() => { this.updateDecorations(editor); ... }, delay)
SetTimeout(timers, handle, editor, due) ==
    timers \cup {[id |-> handle.id, editor |-> editor, due |-> due]}

LastRequestAt ==
    IF controller.requests = <<>> THEN 0
    ELSE controller.requests[Len(controller.requests)].at

ThrottleUpdateDecorations(editor, gap) ==
    /\ controller.pc = "throttle"
    /\ Len(controller.requests) < MaxRequests
    /\ LET at == LastRequestAt + gap
           handle == [id |-> Len(controller.requests) + 1]
           cleared == IF controller.updateThrottleTimer # None
                      THEN ClearTimeout(controller.timers, controller.updateThrottleTimer)
                      ELSE controller.timers
       IN  /\ \A t \in controller.timers : at < t.due
           /\ controller.requests # <<>> /\ controller.timers = {}
                  => gap >= controller.throttleDelay
           /\ controller' =
                  [controller EXCEPT
                      !.timers = SetTimeout(cleared, handle, editor,
                                            at + controller.throttleDelay),
                      !.updateThrottleTimer = handle,
                      !.requests = Append(@, [editor |-> editor, at |-> at])]
    /\ UNCHANGED <<resolveVars, cacheVars, managerVars, extractor, gopls, manager>>

\* the callback of the timer that is due first
TimerFires ==
    /\ controller.pc = "throttle"
    /\ \E t \in controller.timers :
          /\ \A u \in controller.timers : t.due <= u.due
          /\ controller' =
                 [controller EXCEPT
                     !.updates = Append(@, [editor |-> t.editor, at |-> t.due]),
                     !.updateThrottleTimer = None,
                     !.timers = @ \ {t}]
    /\ UNCHANGED <<resolveVars, cacheVars, managerVars, extractor, gopls, manager>>

InitThrottle ==
    /\ \E delay \in ThrottleDelays : controller = ThrottleStarted(delay)
    /\ result = EmptyResult
    /\ extractor = NotStarted
    /\ gopls = NotStarted
    /\ manager = NotStarted
    /\ ResolveIdle
    /\ CachesEmpty

NextThrottle ==
    \/ \E editor \in Editors : \E gap \in Gaps(controller.throttleDelay) :
          ThrottleUpdateDecorations(editor, gap)
    \/ TimerFires

SpecThrottle == InitThrottle /\ [][NextThrottle]_vars

\* the request i is not followed by another one within throttleDelay
Settled(i) ==
    IF i < Len(controller.requests)
    THEN controller.requests[i + 1].at - controller.requests[i].at
             >= controller.throttleDelay
    ELSE \A t \in controller.timers : t.id # i

\* one update per burst, for the editor of its last request, throttleDelay later
UpdatesOfBursts ==
    LET F[i \in 0..Len(controller.requests)] ==
            IF i = 0 THEN <<>>
            ELSE IF Settled(i)
                 THEN Append(F[i - 1],
                             [editor |-> controller.requests[i].editor,
                              at |-> controller.requests[i].at + controller.throttleDelay])
                 ELSE F[i - 1]
    IN  F[Len(controller.requests)]

\* C31: at most one update timer is pending at any time, and the updates made
\* are exactly one per burst of requests that follow each other by less than
\* throttleDelay, each for the editor of the last request of its burst and
\* throttleDelay after that request
C31_ThrottleDebounces ==
    controller.pc = "throttle" =>
        /\ Cardinality(controller.timers) <= 1
        /\ \A t \in controller.timers :
              /\ [id |-> t.id] = controller.updateThrottleTimer
              /\ t.id = Len(controller.requests)
              /\ t.due = LastRequestAt + controller.throttleDelay
        /\ controller.updates = UpdatesOfBursts

\* a burst of two requests for different editors ended in one update
C31_Witness ==
    /\ controller.pc = "throttle"
    /\ Len(controller.requests) >= 2
    /\ controller.requests[2].at - controller.requests[1].at < controller.throttleDelay
    /\ controller.requests[1].editor # controller.requests[2].editor
    /\ Len(controller.updates) = 1
    /\ controller.updates[1].editor = controller.requests[2].editor

----------------------------------------------------------------------------
(* The gopls-only controller: updateDecorations (part_001 1154-1259).  A
   call runs up to its first await in one step; the promises it awaits
   (getDocumentSymbols, then the hasImplementations and
   isMethodImplementingInterface requests) settle in later steps, with a
   value or with an exception. *)

MaxUpdates == 3
EditorTxt == "notes.txt"
AnyEditors == {EditorA, EditorB, EditorTxt}

\* editor.document.languageId
languageId(editor) == IF editor = EditorTxt THEN "plaintext" ELSE "go"

UpdateStarted ==
    [pc |-> "update", isUpdating |-> FALSE, started |-> 0, running |-> {},
     methodMaps |-> EmptyMap, applied |-> EmptyMap, last |-> None]

Exit(id, exit) == [id |-> id, exit |-> exit]

\* updateDecorations(editor) up to await getDocumentSymbols(uri)
UpdateDecorations(editor) ==
    /\ controller.pc = "update"
    /\ controller.started < MaxUpdates
    /\ LET id == controller.started + 1
       IN  controller' =
              IF languageId(editor) # "go"
              THEN [controller EXCEPT !.started = id, !.last = Exit(id, "notgo")]
              ELSE IF controller.isUpdating
              THEN [controller EXCEPT !.started = id, !.last = Exit(id, "guard")]
              ELSE [controller EXCEPT
                       !.started = id,
                       !.isUpdating = TRUE,
                       !.running = @ \cup {[id |-> id, editor |-> editor, pc |-> "symbols"]},
                       !.last = None]
    /\ UNCHANGED <<resolveVars, cacheVars, managerVars, extractor, gopls, manager>>

\* the call leaves and the flag stays as it is
NoFinally(c, exit) ==
    [controller EXCEPT !.running = @ \ {c}, !.last = Exit(c.id, exit)]

\* the call leaves through finally { this.isUpdating = false }
Finally(c, exit) ==
    [controller EXCEPT !.isUpdating = FALSE, !.running = @ \ {c},
                       !.last = Exit(c.id, exit)]

\* getDocumentSymbols gives nothing: the early return
SymbolsEmpty(c) ==
    /\ controller.pc = "update"
    /\ c \in controller.running /\ c.pc = "symbols"
    /\ controller' = Finally(c, "empty")
    /\ UNCHANGED <<resolveVars, cacheVars, managerVars, extractor, gopls, manager>>

\* getDocumentSymbols gives symbols: on to the awaits of the two loops
SymbolsFound(c) ==
    /\ controller.pc = "update"
    /\ c \in controller.running /\ c.pc = "symbols"
    /\ controller' = [controller EXCEPT
                         !.running = (@ \ {c}) \cup {[c EXCEPT !.pc = "checks"]},
                         !.last = None]
    /\ UNCHANGED <<resolveVars, cacheVars, managerVars, extractor, gopls, manager>>

\* an awaited promise rejects: catch, then finally
Throws(c) ==
    /\ controller.pc = "update"
    /\ c \in controller.running
    /\ controller' = Finally(c, "error")
    /\ UNCHANGED <<resolveVars, cacheVars, managerVars, extractor, gopls, manager>>

\* the loops end: the CacheManager maps, applyDecorations, refresh, finally
Completes(c) ==
    /\ controller.pc = "update"
    /\ c \in controller.running /\ c.pc = "checks"
    /\ controller' =
           [Finally(c, "done") EXCEPT
               !.methodMaps = MapSet(@, c.editor, c.id),
               !.applied = MapSet(@, c.editor, c.id)]
    /\ UNCHANGED <<resolveVars, cacheVars, managerVars, extractor, gopls, manager>>

InitUpdate ==
    /\ controller = UpdateStarted
    /\ result = EmptyResult
    /\ extractor = NotStarted
    /\ gopls = NotStarted
    /\ manager = NotStarted
    /\ ResolveIdle
    /\ CachesEmpty

\* an awaited promise settles
Settles ==
    \E c \in controller.running :
        SymbolsEmpty(c) \/ SymbolsFound(c) \/ Throws(c) \/ Completes(c)

NextUpdate ==
    \/ \E editor \in AnyEditors : UpdateDecorations(editor)
    \/ \E c \in controller.running : SymbolsEmpty(c)
    \/ \E c \in controller.running : SymbolsFound(c)
    \/ \E c \in controller.running : Throws(c)
    \/ \E c \in controller.running : Completes(c)

\* every promise the call awaits settles
SpecUpdate == InitUpdate /\ [][NextUpdate]_vars /\ WF_vars(Settles)

----------------------------------------------------------------------------
(* GoplsService.isAvailable and clearCache (goplsService.ts 32-70, 456-465).
   A promise is kept by its number; doCheckGopls runs up to its await of
   goExtension.activate() in the step of the isAvailable call that starts it. *)

MaxOps == 4

\* what doCheckGopls finds: no Go extension (false), an active one (true),
\* one that has yet to be activated (the promise stays pending)
CheckOutcomes == {"false", "true", "pending"}

AvailableStarted ==
    [pc |-> "available", checkPromise |-> None, promises |-> <<>>, callers |-> <<>>,
     epoch |-> 0, ops |-> 0]

\* this.checkPromise = this.doCheckGopls()
DoCheckGopls(g, outcome) ==
    [g EXCEPT !.promises = Append(@, [epoch |-> g.epoch, state |-> outcome]),
              !.checkPromise = [id |-> Len(g.promises) + 1]]

\* the promise the caller is given
Given(g) == [promise |-> g.checkPromise.id, epoch |-> g.epoch]

IsAvailable(outcome) ==
    /\ gopls.pc = "available"
    /\ gopls.ops < MaxOps
    /\ LET g == IF gopls.checkPromise # None THEN gopls ELSE DoCheckGopls(gopls, outcome)
       IN  /\ gopls.checkPromise # None => outcome = "pending"
           /\ gopls' = [g EXCEPT !.callers = Append(@, Given(g)), !.ops = @ + 1]
    /\ UNCHANGED <<resolveVars, cacheVars, managerVars, extractor, manager, controller>>

\* await goExtension.activate() resolves (true) or rejects (false)
ActivateSettles(id, outcome) ==
    /\ gopls.pc = "available"
    /\ id \in DOMAIN gopls.promises
    /\ gopls.promises[id].state = "pending"
    /\ gopls' = [gopls EXCEPT !.promises[id].state = outcome]
    /\ UNCHANGED <<resolveVars, cacheVars, managerVars, extractor, manager, controller>>

\* clearCache() without a path; if (filePath) takes '' the same way
NoPath == ""

\* the reset made only by clearCache()
ResetCheckWithoutPath(g, filePath) ==
    IF filePath = NoPath THEN [g EXCEPT !.checkPromise = None] ELSE g

\* this.checkPromise = null
ResetCheck(g, filePath) == [g EXCEPT !.checkPromise = None]

\* clearCache(filePath?)
GoplsClearCache(filePath) ==
    /\ gopls.pc = "available"
    /\ gopls.ops < MaxOps
    /\ decorationCache' = IF filePath # NoPath THEN MapDelete(decorationCache, DocKey(filePath))
                          ELSE EmptyMap
    /\ gopls' = [ResetCheck(gopls, filePath) EXCEPT !.epoch = @ + 1, !.ops = @ + 1]
    /\ UNCHANGED <<resolveVars, cacheVars, currentService, extractor, manager, controller>>

InitAvailable ==
    /\ gopls = AvailableStarted
    /\ result = EmptyResult
    /\ extractor = NotStarted
    /\ manager = NotStarted
    /\ controller = NotStarted
    /\ ResolveIdle
    /\ CachesEmpty

NextAvailable ==
    \/ \E outcome \in CheckOutcomes : IsAvailable(outcome)
    \/ \E id \in DOMAIN gopls.promises, outcome \in {"false", "true"} :
          ActivateSettles(id, outcome)
    \/ \E filePath \in {NoPath, PathA} : GoplsClearCache(filePath)

SpecAvailable == InitAvailable /\ [][NextAvailable]_vars

\* C33: between two clearCache calls at most one check is started; all the
\* callers of that interval are given the promise of that check, whatever
\* its state or outcome; and the first caller after a clearCache, made with
\* or without a path, is given the promise of a check started after it
C33_CheckMemoized ==
    gopls.pc = "available" =>
        /\ \A i, j \in DOMAIN gopls.promises :
              gopls.promises[i].epoch = gopls.promises[j].epoch => i = j
        /\ \A c \in DOMAIN gopls.callers :
              gopls.promises[gopls.callers[c].promise].epoch = gopls.callers[c].epoch

\* two callers were given the check that ended false, and after a
\* clearCache a third was given a new one
C33_Witness ==
    /\ gopls.pc = "available"
    /\ Len(gopls.callers) = 3
    /\ gopls.callers[1].promise = 1 /\ gopls.callers[2].promise = 1
    /\ gopls.promises[1].state = "false"
    /\ gopls.callers[3].promise = 2
    /\ decorationCache = EmptyMap

----------------------------------------------------------------------------
\* the locals of checkInterfaceImplementations run on the maps of the call
\* without its embedding pass
WithoutEmbeddingPass ==
    PointerPass(DirectPass(ExplicitPass([ii |-> {}, impl |-> EmptyMap],
                                        interfaceMethodsMap, structsMap),
                           interfaceMethodsMap, structMethodsMap),
                interfaceMethodsMap, structMethodsMap, ReceiverNames(result))

\* C34: the set of interface names checkInterfaceImplementations returns is
\* the set it would return without its embedding pass
C34_EmbeddingKeepsReturnValue ==
    Returned => implementedInterfaces = WithoutEmbeddingPass.ii

\* the embedding pass recorded a struct, for an interface that had one
C34_Witness ==
    /\ Returned
    /\ \E i \in DOMAIN interfaceImplementations :
          \E s \in interfaceImplementations[i] : ~Has(WithoutEmbeddingPass, i, s)
    /\ \E i \in DOMAIN interfaceMethodsMap :
          /\ i \notin implementedInterfaces
          /\ \E s \in DOMAIN structsMap.info : i \in EmbeddedOf(structsMap, s)

----------------------------------------------------------------------------
\* structsMap lists the chain S6 > ... > S1 > Base innermost first
InnermostFirst == structsMap.order = [k \in 1..7 |-> ChainName(k - 1)]

\* structsMap lists the chain outermost first
OutermostFirst == structsMap.order = [k \in 1..7 |-> ChainName(7 - k)]

\* C35: for the chain S6 embeds S5 ... S1 embeds Base, Base declaring the
\* method of Reader, when checkInterfaceImplementations has returned S1..S5
\* are recorded for Reader in both orders of structsMap, S6 is recorded when
\* the structs are listed innermost first and is not when they are listed
\* outermost first
C35_OrderBeyondBound ==
    Returned /\ (InnermostFirst \/ OutermostFirst) =>
        /\ \A k \in 1..5 : Has(locals, "Reader", ChainName(k))
        /\ InnermostFirst => Has(locals, "Reader", "S6")
        /\ OutermostFirst => ~Has(locals, "Reader", "S6")

\* innermost first, S6 was recorded in the first iteration
C35_Witness ==
    /\ Returned
    /\ InnermostFirst
    /\ interfaceMethodsMap = [i \in {"Reader"} |-> <<"Read">>]
    /\ OwnMethodNames(result, "Base") = {"Read"}
    /\ Has(locals, "Reader", "S6")
    /\ iterations = 2

----------------------------------------------------------------------------
\* the call went past both caches and came back with the empty result: the
\* parser was not ready, the file was missing, the extractor failed or its
\* output was invalid, or it reported no package
CameBackEmpty(r) == ~FromCache(r) /\ r.ret = EmptyResult

\* a cache serves the empty result
ServesEmpty ==
    \/ \E p \in DOMAIN fileCache : fileCache[p] = EmptyResult
    \/ \E d \in DOMAIN parseCache : parseCache[d] = EmptyResult

\* the step in which a call comes back empty leaves the four maps alone
EmptyReturnWritesNothing ==
    (hist'.returned # None /\ CameBackEmpty(hist'.returned))
        => UNCHANGED <<fileCache, fileCacheTimes, parseCache, cacheTimes>>

----------------------------------------------------------------------------
(* GoplsService.getAllDecorations (goplsService.ts 283-451), the building of
   its four outputs.  The document's symbols are given as the interfaces and
   the methods extracted from them; gopls answers findImplementations for an
   interface by its name and findTypeDefinition for a method by its line.
   The two arrays are sequences; a step is the code between two awaits. *)

SymbolInterface(name, line, methods) == [name |-> name, line |-> line, methods |-> methods]
SymbolMethod(name, line, receiverType) ==
    [name |-> name, line |-> line, receiverType |-> receiverType]

DocInterfaces ==
    LET reader == SymbolInterface("Reader", 1, <<SymbolMethod("Read", 2, "")>>)
        writer == SymbolInterface("Writer", 4, <<SymbolMethod("Write", 5, ""),
                                                 SymbolMethod("Close", 6, "")>>)
    IN  {<<>>, <<reader>>, <<reader, writer>>}

DocMethods ==
    {<<>>,
     <<SymbolMethod("Read", 10, "File")>>,
     <<SymbolMethod("Read", 10, "File"), SymbolMethod("Write", 11, "File"),
       SymbolMethod("Read", 12, "Pipe")>>}

\* parseImplementsComments: struct name -> declared interface names
DocComments ==
    {<<>>,
     <<[struct |-> "File", interfaces |-> <<"Reader">>]>>,
     <<[struct |-> "File", interfaces |-> <<"Writer", "Closer", "Reader">>],
       [struct |-> "Pipe", interfaces |-> <<"Reader">>]>>}

DocInputs ==
    UNION {
      {[interfaces |-> is, methods |-> ms, comments |-> cs,
        implemented |-> ok, typeDefined |-> td] :
          ok \in SUBSET {is[k].name : k \in DOMAIN is},
          td \in SUBSET {ms[k].line : k \in DOMAIN ms}} :
      is \in DocInterfaces, ms \in DocMethods, cs \in DocComments}

DecorationsStarted(input) ==
    [pc |-> "symbols", at |-> 1, input |-> input,
     interfaceDecorations |-> <<>>, implementationDecorations |-> <<>>,
     lineToMethodMap |-> EmptyMap, lineTypeMap |-> EmptyMap]

\* interfaceDecorations.push, lineToMethodMap.set, lineTypeMap.set
PushInterface(g, line, name) ==
    [g EXCEPT !.interfaceDecorations = Append(@, Decoration(line, "interface", name)),
              !.lineToMethodMap = MapSet(@, line, name),
              !.lineTypeMap = MapSet(@, line, "interface")]

\* the push without lineTypeMap.set
PushImplementationUntyped(g, line, name) ==
    [g EXCEPT !.implementationDecorations =
                  Append(@, Decoration(line, "implementation", name)),
              !.lineToMethodMap = MapSet(@, line, name)]

\* implementationDecorations.push, lineToMethodMap.set, lineTypeMap.set
PushImplementation(g, line, name) ==
    [g EXCEPT !.implementationDecorations =
                  Append(@, Decoration(line, "implementation", name)),
              !.lineToMethodMap = MapSet(@, line, name),
              !.lineTypeMap = MapSet(@, line, "implementation")]

\* decorations.some(d => d.line === line)
SomeLine(decs, line) == \E k \in DOMAIN decs : decs[k].line = line

\* the loops go on with the next pass when one is through
Advance(g) ==
    LET g1 == IF g.pc = "interfaces" /\ g.at > Len(g.input.interfaces)
              THEN [g EXCEPT !.pc = "methods", !.at = 1] ELSE g
    IN  IF g1.pc = "methods" /\ g1.at > Len(g1.input.methods)
        THEN [g1 EXCEPT !.pc = "comments", !.at = 1] ELSE g1

\* for (const method of iface.methods) of the first loop
RECURSIVE PushInterfaceMethods(_, _, _)
PushInterfaceMethods(g, methods, k) ==
    IF k > Len(methods) THEN g
    ELSE PushInterfaceMethods(PushInterface(g, methods[k].line, methods[k].name),
                              methods, k + 1)

\* allMethods.some(m => receiver of structName && m.name === name)
StructHasMethod(allMethods, structName, name) ==
    \E k \in DOMAIN allMethods :
       /\ allMethods[k].receiverType \in {structName, "*" \o structName}
       /\ allMethods[k].name = name

\* 2. the methods of a declared interface the struct implements
RECURSIVE CommentInterfaceMethods(_, _, _, _)
CommentInterfaceMethods(g, structName, methods, k) ==
    IF k > Len(methods) THEN g
    ELSE LET method == methods[k]
             g1 == IF /\ StructHasMethod(g.input.methods, structName, method.name)
                      /\ ~SomeLine(g.interfaceDecorations, method.line)
                   THEN PushInterface(g, method.line, method.name)
                   ELSE g
         IN  CommentInterfaceMethods(g1, structName, methods, k + 1)

\* 3. the struct's methods named by the declared interface
RECURSIVE CommentStructMethods(_, _, _, _)
CommentStructMethods(g, structName, iface, k) ==
    IF k > Len(g.input.methods) THEN g
    ELSE LET method == g.input.methods[k]
             g1 == IF /\ method.receiverType \in {structName, "*" \o structName}
                      /\ \E j \in DOMAIN iface.methods : iface.methods[j].name = method.name
                      /\ ~SomeLine(g.implementationDecorations, method.line)
                   THEN PushImplementation(g, method.line, method.name)
                   ELSE g
         IN  CommentStructMethods(g1, structName, iface, k + 1)

\* one declared interface of one struct; interfaces.find(i => i.name === ifaceName)
CommentInterface(g, structName, ifaceName) ==
    LET found == {k \in DOMAIN g.input.interfaces : g.input.interfaces[k].name = ifaceName}
    IN  IF found = {} THEN g
        ELSE LET iface == g.input.interfaces[CHOOSE k \in found : \A j \in found : k <= j]
                 g1 == IF ~SomeLine(g.interfaceDecorations, iface.line)
                       THEN PushInterface(g, iface.line, iface.name)
                       ELSE g
                 g2 == CommentInterfaceMethods(g1, structName, iface.methods, 1)
             IN  CommentStructMethods(g2, structName, iface, 1)

RECURSIVE CommentInterfaces(_, _, _, _)
CommentInterfaces(g, structName, declared, k) ==
    IF k > Len(declared) THEN g
    ELSE CommentInterfaces(CommentInterface(g, structName, declared[k]),
                           structName, declared, k + 1)

\* for (const [structName, declaredInterfaces] of commentImplements.entries())
RECURSIVE CommentEntries(_, _)
CommentEntries(g, k) ==
    IF k > Len(g.input.comments) THEN g
    ELSE CommentEntries(CommentInterfaces(g, g.input.comments[k].struct,
                                          g.input.comments[k].interfaces, 1),
                        k + 1)

\* the four outputs as they are returned, the arrays as sets
GoplsDecorations(g) ==
    [interfaceDecorations |-> Range(g.interfaceDecorations),
     implementationDecorations |-> Range(g.implementationDecorations),
     lineToMethodMap |-> g.lineToMethodMap, lineTypeMap |-> g.lineTypeMap]

GoplsRest == <<resolveVars, cacheVars, extractor, manager, controller>>

\* getDocumentSymbols answers; no symbol: the empty outputs are returned
DocumentSymbols ==
    /\ gopls.pc = "symbols"
    /\ gopls' = IF gopls.input.interfaces = <<>> /\ gopls.input.methods = <<>>
                THEN [gopls EXCEPT !.pc = "returned"]
                ELSE Advance([gopls EXCEPT !.pc = "interfaces"])
    /\ UNCHANGED <<GoplsRest, managerVars>>

\* findImplementations answers for the interface the first loop is at
FindImplementations ==
    /\ gopls.pc = "interfaces"
    /\ LET iface == gopls.input.interfaces[gopls.at]
           g1 == IF iface.name \in gopls.input.implemented
                 THEN PushInterfaceMethods(PushInterface(gopls, iface.line, iface.name),
                                           iface.methods, 1)
                 ELSE gopls
       IN  gopls' = Advance([g1 EXCEPT !.at = @ + 1])
    /\ UNCHANGED <<GoplsRest, managerVars>>

\* findTypeDefinition answers for the method the second loop is at
FindTypeDefinition ==
    /\ gopls.pc = "methods"
    /\ LET method == gopls.input.methods[gopls.at]
           g1 == IF method.line \in gopls.input.typeDefined
                 THEN PushImplementation(gopls, method.line, method.name)
                 ELSE gopls
       IN  gopls' = Advance([g1 EXCEPT !.at = @ + 1])
    /\ UNCHANGED <<GoplsRest, managerVars>>

\* the loop over the comment declarations, the cache entry, the return
CommentDeclarations(d) ==
    /\ gopls.pc = "comments"
    /\ LET g1 == CommentEntries(gopls, 1)
       IN  /\ gopls' = [g1 EXCEPT !.pc = "returned"]
           /\ decorationCache' =
                  MapSet(decorationCache, DocKey(d),
                         [result |-> GoplsDecorations(g1), timestamp |-> now])
    /\ UNCHANGED <<GoplsRest, currentService>>

\* catch (error): what was built so far is returned, nothing is stored
DecorationsThrow ==
    /\ gopls.pc \in {"interfaces", "methods", "comments"}
    /\ gopls' = [gopls EXCEPT !.pc = "returned"]
    /\ UNCHANGED <<GoplsRest, managerVars>>

\* either service is asked for the decorations of a document
InitDecorations ==
    /\ ResolveIdle
    /\ CachesEmpty
    /\ extractor = NotStarted /\ manager = NotStarted /\ controller = NotStarted
    /\ \/ result \in SmallTables /\ gopls = NotStarted
       \/ result = EmptyResult /\ \E input \in DocInputs : gopls = DecorationsStarted(input)

NextDecorations ==
    \/ Next
    \/ DocumentSymbols
    \/ FindImplementations
    \/ FindTypeDefinition
    \/ CommentDeclarations(FileA)
    \/ DecorationsThrow

SpecDecorations == InitDecorations /\ [][NextDecorations]_vars

\* the two maps have the same keys, and every decorated line is one of them
LinesResolve(r) ==
    /\ DOMAIN r.lineToMethodMap = DOMAIN r.lineTypeMap
    /\ \A d \in r.interfaceDecorations \cup r.implementationDecorations :
          d.line \in DOMAIN r.lineToMethodMap /\ d.line \in DOMAIN r.lineTypeMap

C37_GoplsWitness ==
    /\ gopls.pc = "returned"
    /\ gopls.input.typeDefined = {} /\ gopls.input.implemented = {}
    /\ gopls.interfaceDecorations # <<>>
    /\ gopls.implementationDecorations # <<>>

----------------------------------------------------------------------------
(* Interfaces that embed an interface: the extractor's entries for
   interface { Reader; Write() } and interface { Reader } (goparser.go
   241-260), and checkInterfaceImplementations on them. *)

FuncType == [node |-> "FuncType"]

ReaderDecl == InterfaceDecl("Reader", 1, <<AstField(<<"Read">>, FuncType, 2)>>)
ReadWriterDecl ==
    InterfaceDecl("ReadWriter", 5, <<AstField(<<>>, Ident("Reader"), 6),
                                     AstField(<<"Write">>, FuncType, 7)>>)
SourceDecl == InterfaceDecl("Source", 10, <<AstField(<<>>, Ident("Reader"), 11)>>)

\* Reader is declared before or after the interfaces that embed it, or in
\* another package
EmbeddingInterfaces ==
    {[k \in DOMAIN ds |-> InterfaceInfoOf(ds[k], FileA)] :
        ds \in {<<ReaderDecl, ReadWriterDecl, SourceDecl>>,
                <<SourceDecl, ReadWriterDecl, ReaderDecl>>,
                <<ReadWriterDecl, SourceDecl>>}}

\* File is annotated with declared interfaces, or with Closer, which no file
\* of the package declares
EmbeddingStructs ==
    {<<Struct("File", "int", e, a, FileB, 10)>> \o b :
        e \in {"", "Base"},
        a \in {<<>>, <<"Source">>, <<"ReadWriter">>, <<"Closer", "Source">>},
        b \in {<<>>, <<Struct("Base", "int", "", <<>>, FileA, 20)>>}}

EmbeddingMethods ==
    {MethodOf("File", "Read", fr, FileB, 30) \o MethodOf("File", "Write", fw, FileB, 31)
       \o MethodOf("Base", "Read", br, FileA, 40) \o MethodOf("Base", "Write", bw, FileA, 41) :
       fr \in Recv, fw \in Recv, br \in {"none", "value"}, bw \in {"none", "value"}}

EmbeddingTables ==
    {Package(is, ss, ms) :
        is \in EmbeddingInterfaces, ss \in EmbeddingStructs, ms \in EmbeddingMethods}

InitEmbeddedInterface ==
    /\ result \in EmbeddingTables
    /\ ResolveIdle
    /\ CacheIdle

SpecEmbeddedInterface == InitEmbeddedInterface /\ [][Next]_vars

\* the names of the entries of an interface that the extractor gave a name
NamedMethods(i) == [k \in DOMAIN i.methods |-> i.methods[k].name]

MapsBuilt == pc # "idle" /\ result.packages # <<>>

\* the required methods of every interface are its named methods
RequiredAreNamed ==
    MapsBuilt =>
       \A i \in Range(AllInterfaces(result)) :
          /\ i.name \in DOMAIN interfaceMethodsMap
          /\ interfaceMethodsMap[i.name] = NamedMethods(i)

\* a struct whose own methods cover the named methods of an interface that
\* no annotation asserts is recorded for it
CoveringStructRecorded ==
    Returned =>
       \A i \in Range(AllInterfaces(result)) : \A s \in ReceiverNames(result) :
          /\ Len(i.methods) > 0
          /\ Range(NamedMethods(i)) \subseteq OwnMethodNames(result, s)
          /\ i.name \notin AssertedNames(structsMap)
          => Has(locals, i.name, s)

\* the direct and the pointer pass record nothing for an interface without
\* a named method
UnnamedSkipped ==
    pc \in {"direct", "pointer"} =>
       \A i \in Range(AllInterfaces(result)) :
          Len(i.methods) = 0 =>
             /\ i.name \in implementedInterfaces' <=> i.name \in implementedInterfaces
             /\ MapGetOr(interfaceImplementations', i.name, {})
                   = MapGetOr(interfaceImplementations, i.name, {})

\* C38: the required method set of an interface is exactly its named
\* methods, those of an embedded interface are not added: a struct whose own
\* methods cover the named methods of interface { Reader; Write() } is
\* recorded as implementing it, and an interface with only an embedded
\* interface is skipped by the direct and the pointer pass
C38_RequiredMethodsAreNamed ==
    /\ [](RequiredAreNamed /\ CoveringStructRecorded)
    /\ [][UnnamedSkipped]_vars

\* File has Write and no Read, embeds nothing, and is recorded for
\* ReadWriter, whose embedded Reader is declared with Read; Source is declared
\* and not recorded
C38_Witness ==
    /\ Returned
    /\ \E i \in Range(AllInterfaces(result)) :
          i.name = "ReadWriter" /\ i.internalType = "Reader" /\ NamedMethods(i) = <<"Write">>
    /\ "Reader" \in DOMAIN interfaceMethodsMap /\ interfaceMethodsMap["Reader"] = <<"Read">>
    /\ "Read" \notin OwnMethodNames(result, "File")
    /\ EmbeddedOf(structsMap, "File") = {}
    /\ AssertedNames(structsMap) = {}
    /\ Has(locals, "ReadWriter", "File")
    /\ "Source" \in DOMAIN interfaceMethodsMap /\ "Source" \notin implementedInterfaces

\* an annotation had Source recorded, the direct and pointer passes did not
C38_SourceAsserted ==
    /\ Returned
    /\ "Source" \in implementedInterfaces
    /\ interfaceMethodsMap["Source"] = <<>>

----------------------------------------------------------------------------
\* the set and the map of checkInterfaceImplementations name the same interfaces
SetMatchesMap ==
    /\ implementedInterfaces =
          {i \in DOMAIN interfaceImplementations : interfaceImplementations[i] # {}}
    /\ \A i \in DOMAIN interfaceImplementations : interfaceImplementations[i] # {}

\* every recorded interface is declared
RecordedAreDeclared == implementedInterfaces \subseteq DOMAIN interfaceMethodsMap

\* a step of the call removes nothing from the set or from the struct sets
OnlyGrows ==
    /\ implementedInterfaces \subseteq implementedInterfaces'
    /\ \A i \in DOMAIN interfaceImplementations :
          /\ i \in DOMAIN interfaceImplementations'
          /\ interfaceImplementations[i] \subseteq interfaceImplementations'[i]

\* C39: at every step of checkInterfaceImplementations and at its return an
\* interface name is in implementedInterfaces exactly when
\* interfaceImplementations maps it to a non-empty set of structs, the set
\* and the struct sets only grow during the call, and every name of the set
\* is a key of interfaceMethodsMap
C39_ResultWellFormed ==
    /\ [](SetMatchesMap /\ RecordedAreDeclared)
    /\ [][OnlyGrows]_vars

\* a call whose structsMap asserts the undeclared Closer and the declared
\* Source returned with Source recorded and two structs recorded for one
\* interface, one of them by the embedding pass
C39_Witness ==
    /\ Returned
    /\ "Closer" \in AssertedNames(structsMap)
    /\ "Closer" \notin DOMAIN interfaceMethodsMap
    /\ "Source" \in implementedInterfaces
    /\ iterations >= 2
    /\ \E i \in implementedInterfaces : Cardinality(interfaceImplementations[i]) >= 2

====
